---- MODULE Spec2Model ----
(***************************************************************************)
(* Model of the OneWire bus engine of OneWireAzureSphere: the CRC8         *)
(* accumulator (crc8.h), the current identifier slot (onewirerom.c), the   *)
(* ROM addressing commands (onewire.c), the search algorithm               *)
(* (onewiresearch.c) and the serial adapter (onewireuart.c).  For the      *)
(* search layer the bus is the environment: a fixed set of attached        *)
(* devices that answer the bit primitives with wired-AND semantics, plus   *)
(* an optional injected fault per operation.  For the serial adapter the   *)
(* environment is the UART: whether it opens and what it echoes.           *)
(***************************************************************************)
EXTENDS Integers, Sequences, FiniteSets, TLC

VARIABLES
    devices,                        \* identifiers of the devices attached to the bus
    OneWireROM,                     \* onewirerom.c: static uint8_t OneWireROM[8]
    OneWireLastDeviceFlag,          \* onewiresearch.c:25
    OneWireLastDiscrepancy,         \* onewiresearch.c:26
    OneWireLastFamilyDiscrepancy,   \* onewiresearch.c:27
    crc8,                           \* the global CRC accumulator of crc8.c
    lastOp,                         \* the public operation that returned last
    enumLog,                        \* results of the SearchROM(false) calls since the search was set up
    enumOn,                         \* TRUE while enumLog follows an enumeration
    enumFamily,                     \* family given to OneWireTargetSetup if it started the enumeration, else -1
    crcFed,                         \* bytes fed to DoCrc8 since ClearCrc8 (CRC specification only)
    bus,                            \* what the operation that returned last did on the bus
    uartId,                         \* onewireuart.c:43
    uartFd,                         \* onewireuart.c:38
    uartBaud,                       \* onewireuart.c:49
    gpioPullupFd,                   \* onewireuart.c:33
    gpioValue,                      \* level driven on the pullup GPIO
    uartOp,                         \* the serial adapter function that returned last, with what it met
    framing,                        \* the byte-level call (onewire.c:98-148) that returned last
    Ds18b20ScratchPad,              \* ds18b20.c:28
    thermo                          \* the thermometer function (ds18b20.c) that returned last

vars == <<devices, OneWireROM, OneWireLastDeviceFlag, OneWireLastDiscrepancy,
          OneWireLastFamilyDiscrepancy, crc8, lastOp, enumLog, enumOn,
          enumFamily, crcFed, bus, uartId, uartFd, uartBaud, gpioPullupFd,
          gpioValue, uartOp, framing, Ds18b20ScratchPad, thermo>>

uartVars == <<uartId, uartFd, uartBaud, gpioPullupFd, gpioValue, uartOp>>

cursorVars == <<OneWireLastDeviceFlag, OneWireLastDiscrepancy, OneWireLastFamilyDiscrepancy>>

tempVars == <<Ds18b20ScratchPad, thermo>>

(***************************************************************************)
(* Bounds of the model.                                                    *)
(***************************************************************************)
MaxDevices == 3
MaxFaultDevices == 2
MaxEnumExtra == 2

(***************************************************************************)
(* Byte arithmetic (uint8_t).                                              *)
(***************************************************************************)
Byte == 0..255

Pow2(i) == CASE i = 0 -> 1 [] i = 1 -> 2 [] i = 2 -> 4 [] i = 3 -> 8
             [] i = 4 -> 16 [] i = 5 -> 32 [] i = 6 -> 64 [] i = 7 -> 128
             [] OTHER -> 256

\* (b & mask) > 0 for a single-bit mask
TestMask(b, mask) == ((b \div mask) % 2) = 1

\* b | mask for a single-bit mask
OrMask(b, mask) == IF TestMask(b, mask) THEN b ELSE b + mask

\* b & ~mask for a single-bit mask
AndNotMask(b, mask) == IF TestMask(b, mask) THEN b - mask ELSE b

\* the single element of a one-element set (binds a computed value once)
Only(S) == CHOOSE x \in S : TRUE

RECURSIVE Xor8(_, _, _)
Xor8(a, b, i) ==
    IF i = 0 THEN 0
    ELSE ((a + b) % 2) + 2 * Xor8(a \div 2, b \div 2, i - 1)

(***************************************************************************)
(* CRC8 accumulator.  crc8.c is not part of the available sources; the     *)
(* update is the bit-serial computation the specification describes.       *)
(***************************************************************************)
CrcPoly == 140

\* variant: the mix ignores the accumulator
Crc8Mix_InputOnly(acc, value) == value % 2

\* mix of the accumulator's low bit and the input's low bit
Crc8Mix(acc, value) == (acc + value) % 2

\* one bit of the update: shift right, fold the polynomial in when mix is 1
Crc8Step(acc, value) ==
    IF Crc8Mix(acc, value) = 1 THEN Xor8(acc \div 2, CrcPoly, 8) ELSE acc \div 2

RECURSIVE Crc8Bits(_, _, _)
Crc8Bits(acc, value, i) ==
    IF i = 0 THEN acc
    ELSE Only({Crc8Bits(a, value \div 2, i - 1) : a \in {Crc8Step(acc, value)}})

DoCrc8(acc, value) == Crc8Bits(acc, value, 8)

ClearCrc8Value == 0

RECURSIVE Crc8OfSeq(_, _)
Crc8OfSeq(acc, s) ==
    IF s = <<>> THEN acc
    ELSE Only({Crc8OfSeq(a, Tail(s)) : a \in {DoCrc8(acc, Head(s))}})

(***************************************************************************)
(* The attached devices.                                                   *)
(***************************************************************************)
\* an identifier: family code, six serial bytes, CRC8 of the first seven
MkId(family, s1, s2, s6) ==
    LET p == <<family, s1, s2, 0, 0, 0, s6>>
    IN  Append(p, Crc8OfSeq(ClearCrc8Value, p))

DevA == MkId(40, 1, 0, 0)
DevB == MkId(40, 3, 0, 0)
DevC == MkId(40, 1, 0, 128)
DevD == MkId(16, 1, 0, 0)
DevE == MkId(59, 1, 5, 0)
DevZ == MkId(0, 7, 0, 0)

Pool == {DevA, DevB, DevC, DevD, DevE, DevZ}

\* devices that answer the alarm search
Alarming == {DevB, DevE}

DeviceSets == {D \in SUBSET Pool : Cardinality(D) <= MaxDevices}

Families == {40, 16}

ZeroROM == <<0, 0, 0, 0, 0, 0, 0, 0>>

\* bit p (1..64) of an identifier, byte 0 first, least significant bit first
BitOf(id, p) == (id[((p - 1) \div 8) + 1] \div Pow2((p - 1) % 8)) % 2

\* the 64 bits each device of the pool sends, in transmission order
DevBits == [d \in Pool |-> [p \in 1..64 |-> BitOf(d, p)]]

(***************************************************************************)
(* Bus behaviour: the answer of the attached devices to the primitives of  *)
(* onewire.c, and the fault the environment injects into one operation.    *)
(***************************************************************************)
NoFault == [kind |-> "none", pos |-> 0]

FaultPositions == {1, 8, 20, 64}

ResetFaults == {[kind |-> k, pos |-> 0] : k \in {"NoDevices", "NoData", "HardwareFailure"}}

BitFaults == {[kind |-> k, pos |-> p] : k \in {"read1", "read2", "nodev", "write"}, p \in FaultPositions}

\* noise that inverts what is sampled at one bit position
FlipPositions == {20, 64}

NoiseFaults == {[kind |-> "flip", pos |-> p] : p \in FlipPositions}

\* the echo of the first bit of one byte an operation sends (0 = the command
\* byte, 1..8 = the identifier bytes) is wrong; the devices either still
\* took the byte ("sendHeard") or lost it ("sendLost")
SendFaultBytes == {0, 8}

SendKinds == {"sendHeard", "sendLost"}

SendFaults == {[kind |-> k, pos |-> i] : k \in SendKinds, i \in SendFaultBytes}

\* the faults an operation that sends only a command byte can meet
CommandFaults == {f \in SendFaults : f.pos = 0}

Faults == ResetFaults \cup BitFaults \cup NoiseFaults \cup SendFaults

\* the bus activity of one operation: the answer to its reset, the bytes
\* given to OneWireSendByte and whether every send returned true, the
\* values given to OneWireWriteBit for those bytes, the values
\* OneWireReceiveByte returned, the numbers of OneWireReadBit and
\* OneWireWriteBit calls, whether one of those calls failed, and how many of
\* them came after the first one that failed
NoBus == [reset |-> "none", sent |-> <<>>, bits |-> <<>>, sendOk |-> TRUE, recv |-> <<>>,
          reads |-> 0, writes |-> 0, failed |-> FALSE, after |-> 0]

\* OneWireReset: the presence pulse of any attached device gives DevicePresent
OneWireReset(devs, f) ==
    IF f.kind \in {"NoDevices", "NoData", "HardwareFailure"} THEN f.kind
    ELSE IF devs = {} THEN "NoDevices" ELSE "DevicePresent"

\* OneWireReadBit while the devices in S drive bit p (or its complement):
\* the line is the wired AND of what they send
OneWireReadBit(S, p, complement, f) ==
    IF f.pos = p /\ f.kind = (IF complement THEN "read2" ELSE "read1") THEN -1
    ELSE IF f.pos = p /\ f.kind = "nodev" THEN 1
    ELSE IF f.pos = p /\ f.kind = "flip"
         THEN (IF \A d \in S : DevBits[d][p] = (IF complement THEN 0 ELSE 1) THEN 0 ELSE 1)
    ELSE IF \A d \in S : DevBits[d][p] = (IF complement THEN 0 ELSE 1) THEN 1 ELSE 0

\* OneWireWriteBit of the direction bit at position p
OneWireWriteBit(p, f) == ~(f.pos = p /\ f.kind = "write")

\* variant: the top bit goes out first
RECURSIVE SendBits_MsbFirst(_, _)
SendBits_MsbFirst(data, i) ==
    IF i = 8 THEN <<>>
    ELSE <<(data \div 128) % 2>> \o SendBits_MsbFirst((data * 2) % 256, i + 1)

\* onewire.c:101-104 : the values the loop gives to OneWireWriteBit from
\* pass i on, 'data & 1' and then 'data = data >> 1'
RECURSIVE SendBits(_, _)
SendBits(data, i) ==
    IF i = 8 THEN <<>>
    ELSE <<data % 2>> \o SendBits(data \div 2, i + 1)

\* the values given to OneWireWriteBit by successive OneWireSendByte calls
RECURSIVE WriteBitsOf(_)
WriteBitsOf(s) == IF s = <<>> THEN <<>> ELSE SendBits(Head(s), 0) \o WriteBitsOf(Tail(s))

\* OneWireWriteBit of bit i (0..7) of the byteIndex-th byte an operation sends
SendWriteBit(byteIndex, i, f) == ~(f.kind \in SendKinds /\ f.pos = byteIndex /\ i = 0)

\* OneWireSendByteOptionalPullup (onewire.c:98-107): all eight bits are
\* written whatever their results, which are and-ed into the status
OneWireSendByte(byteIndex, f) == \A i \in 0..7 : SendWriteBit(byteIndex, i, f)

\* the OneWireWriteBit calls of one OneWireSendByte that follow its first
\* failed one
SendByteAfter(byteIndex, f) ==
    IF OneWireSendByte(byteIndex, f) THEN 0
    ELSE 7 - (CHOOSE i \in 0..7 : ~SendWriteBit(byteIndex, i, f)
                                  /\ \A j \in 0..(i - 1) : SendWriteBit(byteIndex, j, f))

(***************************************************************************)
(* OneWireSearchROM (onewiresearch.c:110-223).                             *)
(***************************************************************************)
\* variant: the branch at lastDiscrepancy is replayed instead of flipped
SearchDirection_Stuck(id_bit_number, lastDiscrepancy, romBit) ==
    IF id_bit_number <= lastDiscrepancy THEN romBit ELSE 0

\* variant: a new collision takes the 1 branch
SearchDirection_OneFirst(id_bit_number, lastDiscrepancy, romBit) ==
    IF id_bit_number < lastDiscrepancy THEN romBit ELSE 1

\* variant: past lastDiscrepancy the stored identifier bit is followed
SearchDirection_Stored(id_bit_number, lastDiscrepancy, romBit) ==
    IF id_bit_number = lastDiscrepancy THEN 1 ELSE romBit

\* onewiresearch.c:158-162 : the direction taken on a collision
SearchDirection(id_bit_number, lastDiscrepancy, romBit) ==
    IF id_bit_number < lastDiscrepancy THEN romBit
    ELSE IF id_bit_number = lastDiscrepancy THEN 1 ELSE 0

\* variant: a pass that walked all 64 positions is valid whatever its CRC
SearchSucceeded_NoCrc(id_bit_number, crc) == ~(id_bit_number < 65)

\* onewiresearch.c:202 : the pass is valid
SearchSucceeded(id_bit_number, crc) == ~((id_bit_number < 65) \/ (crc # 0))

\* variant: every device found is taken for the last one
IsLastDevice_Always(lastDiscrepancy) == TRUE

\* variant: the last device is never recognised
IsLastDevice_Never(lastDiscrepancy) == FALSE

\* onewiresearch.c:207 : no unexplored branch is left
IsLastDevice(lastDiscrepancy) == (lastDiscrepancy = 0)

\* variant: a found identifier is kept whatever its first byte
SearchDiscarded_FailedOnly(search_result, rom) == ~search_result

\* onewiresearch.c:215 : the result is discarded
SearchDiscarded(search_result, rom) == (~search_result) \/ (rom[1] = 0)

\* onewiresearch.c:141-198 : one iteration of the do/while loop.  w holds
\* the locals, the identifier being built and the devices still taking part
\* in the pass; brk records that the iteration left the loop by break.
SearchBit(w, lastDiscrepancy, f) ==
    LET p == w.id_bit_number
        oldByte == w.rom[w.rom_byte_number + 1]
        romBit == IF TestMask(oldByte, w.rom_byte_mask) THEN 1 ELSE 0
        mask2 == (w.rom_byte_mask * 2) % 256
        wrap == (mask2 = 0)
        \* lines 153-198, once both bits are read as id_bit and cmp_id_bit
        Body(id_bit, cmp_id_bit) ==
            LET collision == (id_bit = cmp_id_bit)
                Rest(search_direction) ==
                    LET zeroPicked == collision /\ search_direction = 0
                        newByte == IF search_direction = 1
                                   THEN OrMask(oldByte, w.rom_byte_mask)
                                   ELSE AndNotMask(oldByte, w.rom_byte_mask)
                        w1 == [w EXCEPT
                                 !.last_zero = IF zeroPicked THEN p ELSE w.last_zero,
                                 !.lfd = IF zeroPicked /\ p < 9 THEN p ELSE w.lfd,
                                 !.rom = [w.rom EXCEPT ![w.rom_byte_number + 1] = newByte],
                                 !.reads = w.reads + 2,
                                 !.writes = w.writes + 1,
                                 !.after = IF w.failed THEN w.after + 3 ELSE w.after]
                    IN
                    IF ~OneWireWriteBit(p, f) THEN [w1 EXCEPT !.brk = TRUE, !.failed = TRUE]
                    ELSE [w1 EXCEPT
                            !.id_bit_number = (p + 1) % 256,
                            !.rom_byte_mask = IF wrap THEN 1 ELSE mask2,
                            !.rom_byte_number = IF wrap THEN w.rom_byte_number + 1
                                                ELSE w.rom_byte_number,
                            !.crc = IF wrap THEN DoCrc8(w.crc, newByte) ELSE w.crc,
                            !.S = {d \in w.S : DevBits[d][p] = search_direction}]
            IN
            IF id_bit = -1 \/ cmp_id_bit = -1
            THEN [w EXCEPT !.brk = TRUE, !.failed = TRUE, !.reads = w.reads + 2,
                           !.after = IF w.failed THEN w.after + 2
                                     ELSE IF id_bit = -1 THEN w.after + 1 ELSE w.after]
            ELSE IF id_bit = 1 /\ cmp_id_bit = 1
            THEN [w EXCEPT !.brk = TRUE, !.reads = w.reads + 2,
                           !.after = IF w.failed THEN w.after + 2 ELSE w.after]
            ELSE Only({Rest(dir) : dir \in {IF ~collision THEN id_bit
                                             ELSE SearchDirection(p, lastDiscrepancy, romBit)}})
    IN  Only({Body(ib, cb) : ib \in {OneWireReadBit(w.S, p, FALSE, f)},
                             cb \in {OneWireReadBit(w.S, p, TRUE, f)}})

\* the iterations that fill identifier byte b
RECURSIVE SearchByte(_, _, _, _)
SearchByte(w, b, lastDiscrepancy, f) ==
    IF w.brk \/ w.rom_byte_number # b THEN w
    ELSE Only({SearchByte(v, b, lastDiscrepancy, f) : v \in {SearchBit(w, lastDiscrepancy, f)}})

\* onewiresearch.c:140-199 : the do/while loop, until break or rom_byte_number = 8
RECURSIVE SearchLoop(_, _, _)
SearchLoop(w, lastDiscrepancy, f) ==
    IF w.brk \/ ~(w.rom_byte_number < 8) THEN w
    ELSE Only({SearchLoop(v, lastDiscrepancy, f) :
                 v \in {SearchByte(w, w.rom_byte_number, lastDiscrepancy, f)}})

\* the devices that take part in a search pass
Responders(devs, alarmSearch) == IF alarmSearch THEN devs \cap Alarming ELSE devs

\* variant: the normal search command whatever the argument
SearchCommand_NormalOnly(alarmSearch) == IF alarmSearch THEN 240 ELSE 240

\* onewiresearch.c:137 : the search command byte
SearchCommand(alarmSearch) == IF alarmSearch THEN 236 ELSE 240

\* the devices that walk the tree after the command byte was sent
Listeners(devs, alarmSearch, f) ==
    IF f.kind = "sendLost" /\ f.pos = 0 THEN {} ELSE Responders(devs, alarmSearch)

\* variant: the family discrepancy survives a failed reset
ResetFailedCursor_KeepFamily(ldf, ld, lfd) == <<0, 0, lfd>>

\* onewiresearch.c:130-132 : the cursor <<flag, discrepancy, family
\* discrepancy>> after a reset that found no device
ResetFailedCursor(ldf, ld, lfd) == <<0, 0, 0>>

\* variant: the cursor is left as it is when nothing was found
DiscardedCursor_Keep(ldf, ld, lfd) == <<ldf, ld, lfd>>

\* onewiresearch.c:216-218 : the cursor after a call that found nothing
DiscardedCursor(ldf, ld, lfd) == <<0, 0, 0>>

\* variant: the accumulator is used as the call finds it
ClearedCrc8_Keep(crc0) == crc0

\* onewiresearch.c:123 and onewire.c:188 : the accumulator after ClearCrc8(),
\* whatever value crc0 it held
ClearedCrc8(crc0) == ClearCrc8Value

\* The whole of OneWireSearchROM as a function of the state it reads, crc0
\* being the value of the accumulator when it is called; the result holds the
\* return value, the state it leaves, what it did on the bus and the
\* last_zero local.
OneWireSearchROMFrom(crc0, rom, ldf, ld, lfd, alarmSearch, devs, f) ==
    LET Result(ret, rom1, cur, crc, b, last_zero) ==
            [ret |-> ret, rom |-> rom1, ldf |-> cur[1], ld |-> cur[2], lfd |-> cur[3],
             crc |-> crc, bus |-> b, last_zero |-> last_zero]
        w0 == [id_bit_number |-> 1, last_zero |-> 0, rom_byte_number |-> 0,
               rom_byte_mask |-> 1, rom |-> rom, lfd |-> lfd,
               crc |-> ClearedCrc8(crc0), S |-> Listeners(devs, alarmSearch, f),
               brk |-> FALSE, reads |-> 0, writes |-> 8,
               after |-> SendByteAfter(0, f), failed |-> ~OneWireSendByte(0, f)]
        \* lines 201-222, with w the locals when the loop is left
        After(w) ==
            LET ok == SearchSucceeded(w.id_bit_number, w.crc)
                ld1 == IF ok THEN w.last_zero ELSE ld
                ldf1 == IF ok /\ IsLastDevice(ld1) THEN 1 ELSE ldf
                b == [reset |-> "DevicePresent", sent |-> <<SearchCommand(alarmSearch)>>, bits |-> WriteBitsOf(<<SearchCommand(alarmSearch)>>),
                      sendOk |-> OneWireSendByte(0, f), recv |-> <<>>,
                      reads |-> w.reads, writes |-> w.writes, failed |-> w.failed,
                      after |-> w.after]
            IN  IF SearchDiscarded(ok, w.rom)
                THEN Result(FALSE, w.rom, DiscardedCursor(ldf1, ld1, w.lfd), w.crc, b, w.last_zero)
                ELSE Result(TRUE, w.rom, <<ldf1, ld1, w.lfd>>, w.crc, b, w.last_zero)
    IN
    \* line 126 : nothing is done on the bus when the flag is set
    IF ldf # 0
    THEN Result(FALSE, rom, DiscardedCursor(ldf, ld, lfd), ClearedCrc8(crc0), NoBus, 0)
    ELSE IF OneWireReset(devs, f) # "DevicePresent"
    THEN Result(FALSE, rom, ResetFailedCursor(ldf, ld, lfd), ClearedCrc8(crc0),
                [NoBus EXCEPT !.reset = OneWireReset(devs, f)], 0)
    ELSE Only({After(w) : w \in {SearchLoop(w0, ld, f)}})

\* OneWireSearchROM called in the current state
OneWireSearchROMResult(rom, ldf, ld, lfd, alarmSearch, devs, f) ==
    OneWireSearchROMFrom(crc8, rom, ldf, ld, lfd, alarmSearch, devs, f)

(***************************************************************************)
(* OneWireVerifyROM (onewiresearch.c:59-96).                               *)
(***************************************************************************)
\* onewiresearch.c:83-88 : put back the bytes that differ from the snapshot
VerifyRestoreROM(saved, current) ==
    [i \in 1..8 |-> IF saved[i] # current[i] THEN saved[i] ELSE current[i]]

\* variant: only the family byte is compared
VerifyMatches_FamilyOnly(saved, current) == saved[1] = current[1]

\* onewiresearch.c:83-85 : every byte found equals the snapshot
VerifyMatches(saved, current) == \A i \in 1..8 : saved[i] = current[i]

\* variant: the cursor of the internal search is left in place
VerifyRestoreCursor_Keep(saved, current) == current

\* onewiresearch.c:91-93 : put back the cursor
VerifyRestoreCursor(saved, current) == saved

OneWireVerifyROMResult(rom, ldf, ld, lfd, devs, f) ==
    LET After(r) ==
            LET isVerified == r.ret /\ VerifyMatches(rom, r.rom)
                cur == VerifyRestoreCursor(<<ldf, ld, lfd>>, <<r.ldf, r.ld, r.lfd>>)
            IN  [ret |-> isVerified, rom |-> VerifyRestoreROM(rom, r.rom),
                 ldf |-> cur[1], ld |-> cur[2], lfd |-> cur[3], crc |-> r.crc,
                 bus |-> r.bus]
    IN  Only({After(r) : r \in {OneWireSearchROMResult(rom, 0, 64, 0, FALSE, devs, f)}})

(***************************************************************************)
(* OneWireSingleReadROM (onewire.c:182-210).                               *)
(***************************************************************************)
\* onewire.c:139-145 : pass k of the loop of OneWireReceiveByte, 'data = -1'
\* after a failed read and 'data |= (1 << i)' after a 1 (-1 has every bit set)
ReceiveBitInto(data, k, bitValue) ==
    IF bitValue = -1 THEN -1
    ELSE IF bitValue = 1 /\ data # -1 THEN OrMask(data, Pow2(k))
    ELSE data

\* OneWireReceiveByte (onewire.c:134-148) of identifier byte i (0..7): every
\* attached device sends its identifier, least significant bit first
RECURSIVE ReceiveBits(_, _, _, _, _)
ReceiveBits(devs, i, k, data, f) ==
    IF k = 8 THEN data
    ELSE Only({ReceiveBits(devs, i, k + 1, d, f) :
                 d \in {ReceiveBitInto(data, k, OneWireReadBit(devs, 8 * i + k + 1, FALSE, f))}})

\* variant: the first bit received is taken as the most significant
RECURSIVE ReceiveBitsMsbFirst(_, _, _, _, _)
ReceiveBitsMsbFirst(devs, i, k, data, f) ==
    IF k = 8 THEN data
    ELSE LET Acc(bitValue) == IF bitValue = -1 THEN -1
                              ELSE IF bitValue = 1 /\ data # -1 THEN OrMask(data, Pow2(7 - k))
                              ELSE data
         IN  Only({ReceiveBitsMsbFirst(devs, i, k + 1, d, f) :
                     d \in {Acc(OneWireReadBit(devs, 8 * i + k + 1, FALSE, f))}})

OneWireReceiveByte_MsbFirst(devs, i, f) == ReceiveBitsMsbFirst(devs, i, 0, 0, f)

OneWireReceiveByte(devs, i, f) == ReceiveBits(devs, i, 0, 0, f)

\* variant: the checksum is not looked at
SingleReadCrcOk_Any(crc) == TRUE

\* onewire.c:199 : the checksum of the eight bytes read is accepted
SingleReadCrcOk(crc) == (crc = 0)

\* onewire.c:189-197 : read the eight bytes into the local rom[]
RECURSIVE SingleReadLoop(_, _, _, _, _)
SingleReadLoop(i, rom, crc, devs, f) ==
    IF i = 8 THEN [done |-> TRUE, rom |-> rom, crc |-> crc, n |-> 8]
    ELSE LET Step(b) ==
                 IF b = -1 THEN [done |-> FALSE, rom |-> rom, crc |-> crc, n |-> i + 1]
                 ELSE Only({SingleReadLoop(i + 1, r, c, devs, f) :
                              r \in {[rom EXCEPT ![i + 1] = b]}, c \in {DoCrc8(crc, b)}})
         IN  Only({Step(b) : b \in {OneWireReceiveByte(devs, i, f)}})

\* the first OneWireReadBit of a byte-wise read that fails (0 if none)
FirstFailedRead(devs, f) ==
    IF \A p \in 1..64 : OneWireReadBit(devs, p, FALSE, f) # -1 THEN 0
    ELSE CHOOSE p \in 1..64 : /\ OneWireReadBit(devs, p, FALSE, f) = -1
                              /\ \A q \in 1..(p - 1) : OneWireReadBit(devs, q, FALSE, f) # -1

\* the devices that send their identifier after the Read ROM command
Readers(devs, f) == IF f.kind = "sendLost" /\ f.pos = 0 THEN {} ELSE devs

\* crc0 is the value of the accumulator when the function is called; the
\* result holds the return value, the state the call leaves and what it did
\* on the bus; recv lists what the OneWireReceiveByte calls returned
OneWireSingleReadROMFrom(crc0, current, devs, f) ==
    LET S == Readers(devs, f)
        After(r) ==
            LET recv == [j \in 1..r.n |-> IF j = r.n /\ ~r.done THEN -1 ELSE r.rom[j]]
                failedAt == FirstFailedRead(S, f)
                b == [reset |-> OneWireReset(devs, f), sent |-> <<51>>, bits |-> WriteBitsOf(<<51>>),
                      sendOk |-> OneWireSendByte(0, f), recv |-> recv,
                      reads |-> 8 * r.n, writes |-> 8,
                      failed |-> (~OneWireSendByte(0, f)) \/ failedAt # 0,
                      after |-> IF ~OneWireSendByte(0, f) THEN SendByteAfter(0, f) + 8 * r.n
                                ELSE IF failedAt # 0 THEN 8 * r.n - failedAt ELSE 0]
            IN  IF ~r.done THEN [ret |-> FALSE, rom |-> current, crc |-> r.crc, bus |-> b]
                ELSE IF ~SingleReadCrcOk(r.crc)
                THEN [ret |-> FALSE, rom |-> current, crc |-> r.crc, bus |-> b]
                ELSE [ret |-> TRUE, rom |-> r.rom, crc |-> r.crc, bus |-> b]
    IN  Only({After(r) : r \in {SingleReadLoop(0, ZeroROM, ClearedCrc8(crc0), S, f)}})

\* OneWireSingleReadROM called in the current state
OneWireSingleReadROMResult(current, devs, f) ==
    OneWireSingleReadROMFrom(crc8, current, devs, f)

(***************************************************************************)
(* OneWireMatchROM and OneWireSkipROM (onewire.c:155-175).                 *)
(***************************************************************************)
\* the OneWireWriteBit calls that follow the first failed one when the
\* bytes 0..last are sent one after the other
SendAfter(last, f) ==
    LET bad == {i \in 0..last : ~OneWireSendByte(i, f)}
    IN  IF bad = {} THEN 0
        ELSE LET first == CHOOSE i \in bad : \A j \in bad : i <= j
             IN  SendByteAfter(first, f) + 8 * (last - first)

\* onewire.c:163 : the value OneWireMatchROM returns after a reset that
\* answered resetResponse and sends whose and-ed status is sendOk
MatchROMReturn(resetResponse, sendOk) == TRUE

\* onewire.c:174 : the value OneWireSkipROM returns
SkipROMReturn(resetResponse, sendOk) == TRUE

\* onewire.c:155-164 : reset, 0x55, then the eight bytes of the current
\* identifier
OneWireMatchROMResult(rom, devs, f) ==
    LET sendOk == \A i \in 0..8 : OneWireSendByte(i, f)
    IN  [ret |-> MatchROMReturn(OneWireReset(devs, f), sendOk),
         bus |-> [reset |-> OneWireReset(devs, f), sent |-> <<85>> \o rom, bits |-> WriteBitsOf(<<85>> \o rom),
                  sendOk |-> sendOk, recv |-> <<>>, reads |-> 0, writes |-> 72,
                  failed |-> ~sendOk,
                  after |-> SendAfter(8, f)]]

\* onewire.c:170-175 : reset, then 0xCC
OneWireSkipROMResult(devs, f) ==
    [ret |-> SkipROMReturn(OneWireReset(devs, f), OneWireSendByte(0, f)),
     bus |-> [reset |-> OneWireReset(devs, f), sent |-> <<204>>, bits |-> WriteBitsOf(<<204>>),
              sendOk |-> OneWireSendByte(0, f), recv |-> <<>>, reads |-> 0,
              writes |-> 8, failed |-> ~OneWireSendByte(0, f),
              after |-> SendByteAfter(0, f)]]

(***************************************************************************)
(* The byte level (onewire.c:98-148) as functions of the results of the    *)
(* bit operations.                                                         *)
(***************************************************************************)
\* variant: the loop stops at the first failed write
RECURSIVE SendStatusLoop_ShortCircuit(_, _, _, _)
SendStatusLoop_ShortCircuit(ok, i, status, calls) ==
    IF i = 8 \/ ~status THEN [status |-> status, calls |-> calls]
    ELSE SendStatusLoop_ShortCircuit(ok, i + 1, status /\ ok[i], calls + 1)

\* onewire.c:100-106 : 'status &= OneWireWriteBit(...)' for i = 0..7, where
\* ok[i] is what the i-th OneWireWriteBit returns; calls counts the writes
RECURSIVE SendStatusLoop(_, _, _, _)
SendStatusLoop(ok, i, status, calls) ==
    IF i = 8 THEN [status |-> status, calls |-> calls]
    ELSE SendStatusLoop(ok, i + 1, status /\ ok[i], calls + 1)

\* onewire.c:98-107 : the write-bits issued, each with the pullup request,
\* and the status returned
OneWireSendByteOptionalPullup(data, enableStrongPullup, ok) ==
    LET r == SendStatusLoop(ok, 0, TRUE, 0)
    IN  [status |-> r.status, calls |-> r.calls,
         bits |-> SubSeq(SendBits(data, 0), 1, r.calls),
         pullups |-> [i \in 1..r.calls |-> enableStrongPullup]]

\* onewire.c:134-148 : OneWireReceiveByte when the k-th OneWireReadBit
\* returns reads[k + 1]; every read is made
RECURSIVE ReceiveLoop(_, _, _)
ReceiveLoop(reads, k, data) ==
    IF k = 8 THEN data
    ELSE ReceiveLoop(reads, k + 1, ReceiveBitInto(data, k, reads[k + 1]))

NoFraming == [op |-> "none", data |-> 0, pullup |-> FALSE, ok |-> <<>>, bits |-> <<>>,
              pullups |-> <<>>, calls |-> 0, status |-> TRUE, reads |-> <<>>, value |-> 0]

(***************************************************************************)
(* The DS18B20 scratchpad (ds18b20.c:28, 137-218).                         *)
(***************************************************************************)
\* ds18b20.c:28 : the static array starts zeroed
ZeroPad == <<0, 0, 0, 0, 0, 0, 0, 0, 0>>

NoThermo == [name |-> "none", status |-> FALSE, value |-> 0]

ThermoIdle ==
    /\ Ds18b20ScratchPad = ZeroPad
    /\ thermo = NoThermo

\* ds18b20.c:142-151 : pass i of the loop of Ds18b20ReadScratchpad, where
\* recv[i + 1] is what the i-th OneWireReceiveByte returns
RECURSIVE ScratchpadLoop(_, _, _, _, _)
ScratchpadLoop(i, recv, pad, crc, status) ==
    IF i = 9 THEN [pad |-> pad, crc |-> crc, status |-> status]
    ELSE IF recv[i + 1] = -1
    THEN ScratchpadLoop(i + 1, recv, [pad EXCEPT ![i + 1] = 255], crc, FALSE)
    ELSE \* bound once, so that the accumulator is not recomputed per use
         Only({ScratchpadLoop(i + 1, recv, [pad EXCEPT ![i + 1] = recv[i + 1]], c, status)
                  : c \in {DoCrc8(crc, recv[i + 1])}})

\* ds18b20.c:137-160 : the status returned, the scratchpad and the
\* accumulator left, when OneWireSendByte(0xBE) returns sendOk
Ds18b20ReadScratchpadResult(pad, crc0, sendOk, recv) ==
    IF ~sendOk THEN [pad |-> pad, crc |-> crc0, status |-> FALSE]
    ELSE Only({[pad |-> r.pad, crc |-> r.crc, status |-> r.status /\ r.crc = 0]
                  : r \in {ScratchpadLoop(0, recv, pad, ClearCrc8Value, TRUE)}})

\* ds18b20.c:187-190
GetScratchpadResolution(pad) == (pad[5] \div 32) % 4

\* t & 0xFFF8, t & 0xFFFC, t & 0xFFFE for n = 3, 2, 1 and t for n = 0, for
\* t in 0..65535
ClearLowBits(t, n) == t - (t % Pow2(n))

\* ds18b20.c:200-215 : how many low bits the switch clears
ResolutionBits(resolution) ==
    CASE resolution = 0 -> 3
      [] resolution = 1 -> 2
      [] resolution = 2 -> 1
      [] OTHER -> 0

\* ds18b20.c:197-218 : the value returned, in sixteenths of a degree.  The
\* bytes are promoted to int, so t is in 0..65535; (float)t / 16.0F is exact
\* for these values.
GetScratchpadCelsius(pad) ==
    LET t == pad[2] * 256 + pad[1]
    IN  ClearLowBits(t, ResolutionBits(GetScratchpadResolution(pad)))

(***************************************************************************)
(* State machine of the search layer.                                      *)
(***************************************************************************)
\* the serial adapter before OneWireUartInit (onewireuart.c:33-49)
NoUartOp == [name |-> "none", ret |-> 0, speedOk |-> FALSE, bit |-> 0, pullup |-> FALSE,
             sent |-> -1, baud |-> 0, gpioAtWrite |-> 0, echo |-> -1, attempts |-> 0,
             arrive |-> 0, octet |-> -1]

UartClosed ==
    /\ uartId = -1
    /\ uartFd = -1
    /\ uartBaud = 0
    /\ gpioPullupFd = -1
    /\ gpioValue = 0
    /\ uartOp = NoUartOp

Op(name, ret, f, arg) == [name |-> name, ret |-> ret, faulty |-> (f # NoFault), arg |-> arg]

MaxEnumCalls == MaxDevices + MaxEnumExtra

Init ==
    /\ devices \in DeviceSets
    /\ OneWireROM = ZeroROM
    /\ OneWireLastDeviceFlag = 0
    /\ OneWireLastDiscrepancy = 0
    /\ OneWireLastFamilyDiscrepancy = 0
    /\ crc8 = 0
    /\ lastOp = Op("none", FALSE, NoFault, 0)
    /\ enumLog = <<>>
    /\ enumOn = FALSE
    /\ enumFamily = -1
    /\ crcFed = <<>>
    /\ bus = NoBus
    /\ UartClosed
    /\ framing = NoFraming
    /\ ThermoIdle

EndEnum == enumOn' = FALSE /\ enumLog' = <<>> /\ enumFamily' = -1

\* onewiresearch.c:32-40
OneWireResetSearch ==
    /\ OneWireLastDeviceFlag' = 0
    /\ OneWireLastDiscrepancy' = 0
    /\ OneWireLastFamilyDiscrepancy' = 0
    /\ OneWireROM' = ZeroROM
    /\ lastOp' = Op("ResetSearch", TRUE, NoFault, 0)
    /\ enumOn' = TRUE
    /\ enumLog' = <<>>
    /\ enumFamily' = -1
    /\ bus' = NoBus
    /\ UNCHANGED <<devices, crc8, crcFed>>
    /\ UNCHANGED <<uartVars, framing, tempVars>>

\* variant: the cursor is left as OneWireResetSearch set it
OneWireTargetSetup_NoSeed(familyId) ==
    /\ OneWireLastDeviceFlag' = 0
    /\ OneWireLastFamilyDiscrepancy' = 0
    /\ OneWireROM' = [ZeroROM EXCEPT ![1] = familyId]
    /\ OneWireLastDiscrepancy' = 0
    /\ lastOp' = Op("TargetSetup", TRUE, NoFault, familyId)
    /\ enumOn' = TRUE
    /\ enumLog' = <<>>
    /\ enumFamily' = familyId
    /\ bus' = NoBus
    /\ UNCHANGED <<devices, crc8, crcFed>>
    /\ UNCHANGED <<uartVars, framing, tempVars>>

\* onewiresearch.c:47-53
OneWireTargetSetup(familyId) ==
    /\ OneWireLastDeviceFlag' = 0
    /\ OneWireLastFamilyDiscrepancy' = 0
    /\ OneWireROM' = [ZeroROM EXCEPT ![1] = familyId]
    /\ OneWireLastDiscrepancy' = 64
    /\ lastOp' = Op("TargetSetup", TRUE, NoFault, familyId)
    /\ enumOn' = TRUE
    /\ enumLog' = <<>>
    /\ enumFamily' = familyId
    /\ bus' = NoBus
    /\ UNCHANGED <<devices, crc8, crcFed>>
    /\ UNCHANGED <<uartVars, framing, tempVars>>

\* onewiresearch.c:110-223
OneWireSearchROM(alarmSearch, f) ==
    /\ f \in {NoFault} \cup ResetFaults \cup BitFaults \cup NoiseFaults \cup CommandFaults
    /\ \E r \in {OneWireSearchROMResult(OneWireROM, OneWireLastDeviceFlag,
                                     OneWireLastDiscrepancy, OneWireLastFamilyDiscrepancy,
                                     alarmSearch, devices, f)} :
       /\ OneWireROM' = r.rom
       /\ OneWireLastDeviceFlag' = r.ldf
       /\ OneWireLastDiscrepancy' = r.ld
       /\ OneWireLastFamilyDiscrepancy' = r.lfd
       /\ crc8' = r.crc
       /\ lastOp' = Op("SearchROM", r.ret, f, IF alarmSearch THEN 1 ELSE 0)
       /\ IF enumOn /\ ~alarmSearch /\ f = NoFault /\ Len(enumLog) < MaxEnumCalls
          THEN /\ enumLog' = Append(enumLog, [ret |-> r.ret, rom |-> r.rom,
                                              ld |-> r.ld, ldf |-> r.ldf])
               /\ UNCHANGED <<enumOn, enumFamily>>
          ELSE EndEnum
       /\ bus' = r.bus
       /\ UNCHANGED <<devices, crcFed>>
       /\ UNCHANGED <<uartVars, framing, tempVars>>

\* onewiresearch.c:59-96
OneWireVerifyROM(f) ==
    /\ f \in {NoFault} \cup ResetFaults \cup BitFaults \cup NoiseFaults \cup CommandFaults
    /\ \E r \in {OneWireVerifyROMResult(OneWireROM, OneWireLastDeviceFlag,
                                     OneWireLastDiscrepancy, OneWireLastFamilyDiscrepancy,
                                     devices, f)} :
       /\ OneWireROM' = r.rom
       /\ OneWireLastDeviceFlag' = r.ldf
       /\ OneWireLastDiscrepancy' = r.ld
       /\ OneWireLastFamilyDiscrepancy' = r.lfd
       /\ crc8' = r.crc
       /\ lastOp' = Op("VerifyROM", r.ret, f, 0)
       /\ EndEnum
       /\ bus' = r.bus
       /\ UNCHANGED <<devices, crcFed>>
       /\ UNCHANGED <<uartVars, framing, tempVars>>

\* onewire.c:182-210
OneWireSingleReadROM(f) ==
    /\ f \in {NoFault} \cup ResetFaults \cup NoiseFaults \cup CommandFaults
                \cup {g \in BitFaults : g.kind \in {"read1", "nodev"}}
    /\ \E r \in {OneWireSingleReadROMResult(OneWireROM, devices, f)} :
          /\ OneWireROM' = r.rom
          /\ crc8' = r.crc
          /\ lastOp' = Op("SingleReadROM", r.ret, f, 0)
          /\ EndEnum
          /\ bus' = r.bus
          /\ UNCHANGED <<devices, cursorVars, crcFed>>
          /\ UNCHANGED <<uartVars, framing, tempVars>>

\* onewire.c:155-164
OneWireMatchROM(f) ==
    /\ f \in {NoFault} \cup ResetFaults \cup SendFaults
    /\ \E r \in {OneWireMatchROMResult(OneWireROM, devices, f)} :
          /\ lastOp' = Op("MatchROM", r.ret, f, 0)
          /\ EndEnum
          /\ bus' = r.bus
          /\ UNCHANGED <<devices, OneWireROM, cursorVars, crc8, crcFed>>
          /\ UNCHANGED <<uartVars, framing, tempVars>>

\* onewire.c:170-175
OneWireSkipROM(f) ==
    /\ f \in {NoFault} \cup ResetFaults \cup CommandFaults
    /\ \E r \in {OneWireSkipROMResult(devices, f)} :
          /\ lastOp' = Op("SkipROM", r.ret, f, 0)
          /\ EndEnum
          /\ bus' = r.bus
          /\ UNCHANGED <<devices, OneWireROM, cursorVars, crc8, crcFed>>
          /\ UNCHANGED <<uartVars, framing, tempVars>>

\* a device is unplugged from the bus
Detach(d) ==
    /\ d \in devices
    /\ devices' = devices \ {d}
    /\ lastOp' = Op("Detach", TRUE, NoFault, 0)
    /\ EndEnum
    /\ bus' = NoBus
    /\ UNCHANGED <<OneWireROM, cursorVars, crc8, crcFed>>
    /\ UNCHANGED <<uartVars, framing, tempVars>>

\* the operations on a fault-free bus; OneWireMatchROM and OneWireSkipROM leave
\* the identifier, the cursor and the accumulator as they were, so what can
\* follow them is explored from the state before them
Next ==
    \/ OneWireResetSearch
    \/ \E familyId \in Families : OneWireTargetSetup(familyId)
    \/ /\ lastOp.name \notin {"MatchROM", "SkipROM"}
       /\ \/ \E alarmSearch \in BOOLEAN : OneWireSearchROM(alarmSearch, NoFault)
          \/ OneWireVerifyROM(NoFault)
          \/ OneWireSingleReadROM(NoFault)
          \/ OneWireMatchROM(NoFault)
          \/ OneWireSkipROM(NoFault)
          \/ \E d \in Pool : Detach(d)

Spec == Init /\ [][Next]_vars

(***************************************************************************)
(* The operations that write the identifier, the cursor or the CRC         *)
(* accumulator, in any order, on a fault-free bus with a fixed device set. *)
(***************************************************************************)
NextEnum ==
    \/ OneWireResetSearch
    \/ \E familyId \in Families : OneWireTargetSetup(familyId)
    \/ \E alarmSearch \in BOOLEAN : OneWireSearchROM(alarmSearch, NoFault)
    \/ OneWireVerifyROM(NoFault)
    \/ OneWireSingleReadROM(NoFault)

SpecEnum == Init /\ [][NextEnum]_vars

(***************************************************************************)
(* The search layer on a bus that may fail: any operation may meet one of  *)
(* the faults of Faults.                                                   *)
(***************************************************************************)
FaultPool == {DevA, DevB, DevD, DevZ}

FaultDeviceSets == {D \in SUBSET FaultPool : Cardinality(D) <= MaxFaultDevices}

InitFault ==
    /\ devices \in FaultDeviceSets
    /\ OneWireROM = ZeroROM
    /\ OneWireLastDeviceFlag = 0
    /\ OneWireLastDiscrepancy = 0
    /\ OneWireLastFamilyDiscrepancy = 0
    /\ crc8 = 0
    /\ lastOp = Op("none", FALSE, NoFault, 0)
    /\ enumLog = <<>>
    /\ enumOn = FALSE
    /\ enumFamily = -1
    /\ crcFed = <<>>
    /\ bus = NoBus
    /\ UartClosed
    /\ framing = NoFraming
    /\ ThermoIdle

\* an operation that met a fault is followed by a new set-up of the search,
\* as at the start of TemperatureTimerEventHandler (main.c:151); what can
\* follow OneWireMatchROM and OneWireSkipROM, which leave the identifier and
\* the cursor as they were, is explored from the state before them
NextFault ==
    \/ OneWireResetSearch
    \/ \E familyId \in Families : OneWireTargetSetup(familyId)
    \/ /\ ~lastOp.faulty
       /\ lastOp.name \notin {"MatchROM", "SkipROM"}
       /\ \/ \E f \in {NoFault} \cup Faults : OneWireSearchROM(FALSE, f)
          \/ \E f \in {NoFault} \cup Faults : OneWireVerifyROM(f)
          \/ \E f \in {NoFault} \cup Faults : OneWireSingleReadROM(f)
          \/ \E f \in {NoFault} \cup Faults : OneWireMatchROM(f)
          \/ \E f \in {NoFault} \cup Faults : OneWireSkipROM(f)

SpecFault == InitFault /\ [][NextFault]_vars

(***************************************************************************)
(* The CRC accumulator on its own: bytes are fed after ClearCrc8, and the  *)
(* eighth byte fed is the accumulator itself (the CRC byte of a            *)
(* well-formed identifier).                                                *)
(***************************************************************************)
CrcBytes == {0, 1, 40, 255}

InitCrc ==
    /\ devices = {}
    /\ OneWireROM = ZeroROM
    /\ OneWireLastDeviceFlag = 0
    /\ OneWireLastDiscrepancy = 0
    /\ OneWireLastFamilyDiscrepancy = 0
    /\ crc8 = 0
    /\ lastOp = Op("none", FALSE, NoFault, 0)
    /\ enumLog = <<>>
    /\ enumOn = FALSE
    /\ enumFamily = -1
    /\ crcFed = <<>>
    /\ bus = NoBus
    /\ UartClosed
    /\ framing = NoFraming
    /\ ThermoIdle

crcFrame == <<devices, OneWireROM, cursorVars, lastOp, enumLog, enumOn, enumFamily,
              bus, uartVars, framing, tempVars>>

ClearCrc8 ==
    /\ crc8' = ClearCrc8Value
    /\ crcFed' = <<>>
    /\ UNCHANGED crcFrame

\* DoCrc8 of one of the seven leading bytes
FeedByte(value) ==
    /\ Len(crcFed) < 7
    /\ crc8' = DoCrc8(crc8, value)
    /\ crcFed' = Append(crcFed, value)
    /\ UNCHANGED crcFrame

\* DoCrc8 of the CRC byte: GetCrc8() after the seven leading bytes
FeedCrcByte ==
    /\ Len(crcFed) = 7
    /\ crc8' = DoCrc8(crc8, crc8)
    /\ crcFed' = Append(crcFed, crc8)
    /\ UNCHANGED crcFrame

NextCrc ==
    \/ ClearCrc8
    \/ \E value \in CrcBytes : FeedByte(value)
    \/ FeedCrcByte

SpecCrc == InitCrc /\ [][NextCrc]_vars

(***************************************************************************)
(* The byte level alone: one byte is sent while some of its bit writes     *)
(* fail, and the bits it put on the bus are received while one of the bit  *)
(* reads may fail.                                                         *)
(***************************************************************************)
\* the sets of bit indices whose OneWireWriteBit returns false
SendFailures == {{}, {0}, {3}, {7}, {0, 7}}

\* the index of the OneWireReadBit that returns -1; 8 when none does
ReadFailures == {0, 3, 7, 8}

InitByte == InitCrc

byteFrame == <<devices, OneWireROM, cursorVars, crc8, lastOp, enumLog, enumOn, enumFamily,
               crcFed, bus, uartVars, tempVars>>

\* OneWireSendByte (enableStrongPullup false) and OneWireSendByteWithPullup
\* (true), onewire.c:114-128
OneWireSendByteCall(data, enableStrongPullup, failing) ==
    /\ framing.op = "none"
    /\ \E r \in {OneWireSendByteOptionalPullup(data, enableStrongPullup,
                                                [i \in 0..7 |-> i \notin failing])} :
          framing' = [op |-> "send", data |-> data, pullup |-> enableStrongPullup,
                      ok |-> [i \in 0..7 |-> i \notin failing], bits |-> r.bits,
                      pullups |-> r.pullups, calls |-> r.calls, status |-> r.status,
                      reads |-> <<>>, value |-> 0]
    /\ UNCHANGED byteFrame

\* OneWireReceiveByte (onewire.c:134-148) of the bits the byte sent last put
\* on the bus
OneWireReceiveByteCall(failed) ==
    /\ framing.op = "send"
    /\ framing.calls = 8
    /\ \E reads \in {[k \in 1..8 |-> IF k = failed + 1 THEN -1 ELSE framing.bits[k]]} :
          framing' = [framing EXCEPT !.op = "receive", !.reads = reads,
                                     !.value = ReceiveLoop(reads, 0, 0)]
    /\ UNCHANGED byteFrame

NextByte ==
    \/ \E data \in Byte : \E enableStrongPullup \in BOOLEAN : \E failing \in SendFailures :
          OneWireSendByteCall(data, enableStrongPullup, failing)
    \/ \E failed \in ReadFailures : OneWireReceiveByteCall(failed)

SpecByte == InitByte /\ [][NextByte]_vars

(***************************************************************************)
(* The serial adapter (onewireuart.c) under OneWireInit, OneWireClose,     *)
(* OneWireReset, OneWireWriteBit and OneWireReadBit (onewire.c:34-78).     *)
(* The environment decides whether close() and UART_Open() succeed, on     *)
(* which read() attempt an octet arrives, and which octet it is.           *)
(***************************************************************************)
SlowBaud == 9600

FastBaud == 115200

\* onewireuart.c:172 : the octet of the reset pulse
ResetPattern == 240

\* onewireuart.c:215 and 245 : the octet of a 1 bit and of the read probe
IdlePattern == 255

\* onewireuart.c:314
RetryLimit == 100

\* the port given to OneWireInit and the descriptors the system hands out
UartPort == 0

OpenUartFd == 3

OpenGpioFd == 4

\* octets the environment may echo, and the read() attempt on which the
\* octet arrives (RetryLimit + 1: not within the attempts made)
EchoOctets == {0, 1, 192, 240, 248, 254, 255}

Arrivals == {1, RetryLimit, RetryLimit + 1}

\* variant: an open channel is used at the rate it has
OneWireUartSetSpeed_KeepOpen(id, fd, current, baud, closeOk, openOk) ==
    IF id = -1 THEN [ret |-> FALSE, fd |-> fd, baud |-> current]
    ELSE IF fd >= 0 THEN [ret |-> TRUE, fd |-> fd, baud |-> current]
    ELSE IF ~openOk THEN [ret |-> FALSE, fd |-> -1, baud |-> current]
    ELSE [ret |-> TRUE, fd |-> OpenUartFd, baud |-> baud]

\* variant: a failed close() leaves the recorded rate
OneWireUartSetSpeed_KeepRate(id, fd, current, baud, closeOk, openOk) ==
    IF id = -1 THEN [ret |-> FALSE, fd |-> fd, baud |-> current]
    ELSE IF current = baud THEN [ret |-> TRUE, fd |-> fd, baud |-> current]
    ELSE IF baud # SlowBaud /\ baud # FastBaud THEN [ret |-> FALSE, fd |-> fd, baud |-> current]
    ELSE IF fd >= 0 /\ ~closeOk THEN [ret |-> FALSE, fd |-> -1, baud |-> current]
    ELSE IF ~openOk THEN [ret |-> FALSE, fd |-> -1, baud |-> IF fd >= 0 THEN 0 ELSE current]
    ELSE [ret |-> TRUE, fd |-> OpenUartFd, baud |-> baud]

\* onewireuart.c:81-127 : the return value and the descriptor and rate left
OneWireUartSetSpeed(id, fd, current, baud, closeOk, openOk) ==
    IF id = -1 THEN [ret |-> FALSE, fd |-> fd, baud |-> current]
    ELSE IF current = baud THEN [ret |-> TRUE, fd |-> fd, baud |-> current]
    ELSE IF baud # SlowBaud /\ baud # FastBaud THEN [ret |-> FALSE, fd |-> fd, baud |-> current]
    ELSE IF fd >= 0 /\ ~closeOk THEN [ret |-> FALSE, fd |-> -1, baud |-> 0]
    ELSE IF ~openOk THEN [ret |-> FALSE, fd |-> -1, baud |-> IF fd >= 0 THEN 0 ELSE current]
    ELSE [ret |-> TRUE, fd |-> OpenUartFd, baud |-> baud]

\* onewireuart.c:314-324 : the loop of OneWireUartReadByte, before read()
\* attempt number attempt
RECURSIVE ReadByteLoop(_, _, _, _)
ReadByteLoop(retryCount, attempt, arrive, octet) ==
    IF retryCount = 0
    THEN [data |-> -1, attempts |-> attempt - 1, arrive |-> arrive, octet |-> octet]
    ELSE IF attempt = arrive
    THEN [data |-> octet, attempts |-> attempt, arrive |-> arrive, octet |-> octet]
    ELSE ReadByteLoop(retryCount - 1, attempt + 1, arrive, octet)

\* variant: the retry counter is decremented before it is tested
OneWireUartReadByte_PreDecrement(arrive, octet) ==
    ReadByteLoop(RetryLimit - 1, 1, arrive, octet)

\* onewireuart.c:312-327
OneWireUartReadByte(arrive, octet) == ReadByteLoop(RetryLimit, 1, arrive, octet)

\* GPIO_SetValue on the pullup pin (onewireuart.c:269-272, 334-337); it has
\* no effect without an open descriptor
SetPullup(gpioFd, level, value) == IF gpioFd >= 0 THEN value ELSE level

\* onewireuart.c:283-302 : the level of the pullup pin while the octet is
\* written, and the level left
OneWireUartWriteByte(gpioFd, level, enableStrongPullup) ==
    [during |-> SetPullup(gpioFd, level, 0),
     left |-> IF enableStrongPullup THEN SetPullup(gpioFd, SetPullup(gpioFd, level, 0), 1)
              ELSE SetPullup(gpioFd, level, 0)]

\* onewireuart.h (ds18b20.c:254-259) and onewire.h:26-31
UartResetResponseValue ==
    [UartImplDevicePresent |-> 0, UartImplNoDevices |-> 1, UartImplNoData |-> 2,
     UartImplHardwareFailure |-> 3]

OneWireResetResponseValue ==
    [DevicePresent |-> 0, NoDevices |-> 1, NoData |-> 2, HardwareFailure |-> 3]

\* onewire.c:56 : the cast (OneWireResetResponse)
ResetResponseCast(response) ==
    CHOOSE r \in DOMAIN OneWireResetResponseValue :
        OneWireResetResponseValue[r] = UartResetResponseValue[response]

\* variant: an echo with any bit of the pulse still high counts as no device
ResetEchoResponse_Loose(b) ==
    IF b = -1 THEN "UartImplNoData"
    ELSE IF b >= ResetPattern THEN "UartImplNoDevices"
    ELSE "UartImplDevicePresent"

\* onewireuart.c:181-190 : the response for what OneWireUartReadByte gave
ResetEchoResponse(b) ==
    IF b = -1 THEN "UartImplNoData"
    ELSE IF b = ResetPattern THEN "UartImplNoDevices"
    ELSE "UartImplDevicePresent"

\* onewireuart.c:215
WriteBitOctet(bit) == IF bit # 0 THEN IdlePattern ELSE 0

\* variant: any echo is accepted
WriteBitEchoOk_AnyEcho(receivedData, sentData) == receivedData # -1

\* onewireuart.c:219-227
WriteBitEchoOk(receivedData, sentData) ==
    IF receivedData = -1 THEN FALSE
    ELSE IF receivedData # sentData THEN FALSE
    ELSE TRUE

\* variant: an echo with its top bit high reads as 1
ReadBitValue_TopBit(b) == IF b = -1 THEN -1 ELSE IF b >= 128 THEN 1 ELSE 0

\* onewireuart.c:252-259
ReadBitValue(b) == IF b = -1 THEN -1 ELSE IF b = IdlePattern THEN 1 ELSE 0

searchFrame == <<devices, OneWireROM, cursorVars, crc8, lastOp, enumLog, enumOn,
                 enumFamily, crcFed, bus, framing, tempVars>>

\* r is what OneWireUartReadByte gave, with the read() attempt on which the
\* environment delivered an octet and that octet
UartOp(name, ret, speedOk, bit, pullup, sent, baud, during, r) ==
    [name |-> name, ret |-> ret, speedOk |-> speedOk, bit |-> bit, pullup |-> pullup,
     sent |-> sent, baud |-> baud, gpioAtWrite |-> during, echo |-> r.data,
     attempts |-> r.attempts, arrive |-> r.arrive, octet |-> r.octet]

NoRead == [data |-> -1, attempts |-> 0, arrive |-> 0, octet |-> -1]

\* onewire.c:34-38 with OneWireUartInit (onewireuart.c:57-74)
OneWireInit(gpioOk, closeOk, openOk) ==
    /\ OneWireLastDeviceFlag' = 0
    /\ OneWireLastDiscrepancy' = 0
    /\ OneWireLastFamilyDiscrepancy' = 0
    /\ OneWireROM' = ZeroROM
    /\ UNCHANGED <<devices, crc8, lastOp, enumLog, enumOn, enumFamily, crcFed, bus,
                   framing, tempVars>>
    /\ IF ~gpioOk
       THEN /\ gpioPullupFd' = -1
            /\ uartOp' = UartOp("Init", FALSE, FALSE, 0, FALSE, -1, uartBaud, gpioValue, NoRead)
            /\ UNCHANGED <<uartId, uartFd, uartBaud, gpioValue>>
       ELSE \E sp \in {OneWireUartSetSpeed(UartPort, uartFd, uartBaud, SlowBaud, closeOk, openOk)} :
              /\ gpioPullupFd' = OpenGpioFd
              /\ gpioValue' = 0
              /\ uartId' = UartPort
              /\ uartFd' = sp.fd
              /\ uartBaud' = sp.baud
              /\ uartOp' = UartOp("Init", sp.ret, sp.ret, 0, FALSE, -1, sp.baud, 0, NoRead)

\* onewire.c:43-46 with OneWireUartClose (onewireuart.c:132-150)
\* the code does not drive the pullup pin before closing its descriptor:
\* the pin keeps its level or is released, as the platform decides
OneWireClose(released) ==
    /\ uartFd' = -1
    /\ uartBaud' = IF uartFd >= 0 THEN 0 ELSE uartBaud
    /\ gpioPullupFd' = -1
    /\ gpioValue' = IF released THEN 0 ELSE gpioValue
    /\ uartOp' = UartOp("Close", TRUE, FALSE, 0, FALSE, -1, 0, gpioValue, NoRead)
    /\ UNCHANGED uartId
    /\ UNCHANGED searchFrame

\* onewire.c:54-57 with OneWireUartPulseReset (onewireuart.c:160-193)
OneWireUartPulseReset(closeOk, openOk, arrive, octet) ==
    \E sp \in {OneWireUartSetSpeed(uartId, uartFd, uartBaud, SlowBaud, closeOk, openOk)} :
       /\ uartFd' = sp.fd
       /\ uartBaud' = sp.baud
       /\ IF ~sp.ret
          THEN /\ uartOp' = UartOp("Reset", ResetResponseCast("UartImplHardwareFailure"), FALSE,
                                   0, FALSE, -1, sp.baud, gpioValue, NoRead)
               /\ UNCHANGED gpioValue
          ELSE \E wr \in {OneWireUartWriteByte(gpioPullupFd, gpioValue, FALSE)},
                  r \in {OneWireUartReadByte(arrive, octet)} :
                 /\ gpioValue' = wr.left
                 /\ uartOp' = UartOp("Reset", ResetResponseCast(ResetEchoResponse(r.data)), TRUE,
                                     0, FALSE, ResetPattern, sp.baud, wr.during, r)
       /\ UNCHANGED <<uartId, gpioPullupFd>>
       /\ UNCHANGED searchFrame

\* onewire.c:66-69 with OneWireUartPulseWriteBit (onewireuart.c:203-228)
OneWireUartPulseWriteBit(bit, enableStrongPullup, closeOk, openOk, arrive, octet) ==
    \E sp \in {OneWireUartSetSpeed(uartId, uartFd, uartBaud, FastBaud, closeOk, openOk)} :
       /\ uartFd' = sp.fd
       /\ uartBaud' = sp.baud
       /\ IF ~sp.ret
          THEN /\ uartOp' = UartOp("WriteBit", FALSE, FALSE, bit, enableStrongPullup, -1,
                                   sp.baud, gpioValue, NoRead)
               /\ UNCHANGED gpioValue
          ELSE \E wr \in {OneWireUartWriteByte(gpioPullupFd, gpioValue, enableStrongPullup)},
                  r \in {OneWireUartReadByte(arrive, octet)} :
                 /\ gpioValue' = wr.left
                 /\ uartOp' = UartOp("WriteBit", WriteBitEchoOk(r.data, WriteBitOctet(bit)), TRUE,
                                     bit, enableStrongPullup, WriteBitOctet(bit), sp.baud,
                                     wr.during, r)
       /\ UNCHANGED <<uartId, gpioPullupFd>>
       /\ UNCHANGED searchFrame

\* onewire.c:75-78 with OneWireUartPulseReadBit (onewireuart.c:235-262)
OneWireUartPulseReadBit(closeOk, openOk, arrive, octet) ==
    \E sp \in {OneWireUartSetSpeed(uartId, uartFd, uartBaud, FastBaud, closeOk, openOk)} :
       /\ uartFd' = sp.fd
       /\ uartBaud' = sp.baud
       /\ IF ~sp.ret
          THEN /\ uartOp' = UartOp("ReadBit", -1, FALSE, 0, FALSE, -1, sp.baud, gpioValue, NoRead)
               /\ UNCHANGED gpioValue
          ELSE \E wr \in {OneWireUartWriteByte(gpioPullupFd, gpioValue, FALSE)},
                  r \in {OneWireUartReadByte(arrive, octet)} :
                 /\ gpioValue' = wr.left
                 /\ uartOp' = UartOp("ReadBit", ReadBitValue(r.data), TRUE, 0, FALSE,
                                     IdlePattern, sp.baud, wr.during, r)
       /\ UNCHANGED <<uartId, gpioPullupFd>>
       /\ UNCHANGED searchFrame

\* values of the bit argument of OneWireWriteBit
WriteBitArgs == {0, 1, 2}

InitUart ==
    /\ devices = {}
    /\ OneWireROM = ZeroROM
    /\ OneWireLastDeviceFlag = 0
    /\ OneWireLastDiscrepancy = 0
    /\ OneWireLastFamilyDiscrepancy = 0
    /\ crc8 = 0
    /\ lastOp = Op("none", FALSE, NoFault, 0)
    /\ enumLog = <<>>
    /\ enumOn = FALSE
    /\ enumFamily = -1
    /\ crcFed = <<>>
    /\ bus = NoBus
    /\ UartClosed
    /\ framing = NoFraming
    /\ ThermoIdle

NextUart ==
    \/ \E gpioOk, closeOk, openOk \in BOOLEAN : OneWireInit(gpioOk, closeOk, openOk)
    \/ \E released \in BOOLEAN : OneWireClose(released)
    \/ \E closeOk, openOk \in BOOLEAN, arrive \in Arrivals, octet \in EchoOctets :
          OneWireUartPulseReset(closeOk, openOk, arrive, octet)
    \/ \E bit \in WriteBitArgs, enableStrongPullup \in BOOLEAN, closeOk, openOk \in BOOLEAN,
          arrive \in Arrivals, octet \in EchoOctets :
          OneWireUartPulseWriteBit(bit, enableStrongPullup, closeOk, openOk, arrive, octet)
    \/ \E closeOk, openOk \in BOOLEAN, arrive \in Arrivals, octet \in EchoOctets :
          OneWireUartPulseReadBit(closeOk, openOk, arrive, octet)

SpecUart == InitUart /\ [][NextUart]_vars

(***************************************************************************)
(* The thermometer layer on its own: Ds18b20ReadScratchpad receives a      *)
(* scratchpad from the selected device, and GetScratchpadCelsius converts  *)
(* the temperature bytes of the scratchpad read last.                      *)
(***************************************************************************)
\* temperature registers a DS18B20 can hold: 0x0000, 0x0550 (+85), 0x07D0
\* (+125), 0xFF5E (-10.125), 0xFC90 (-55) and mixtures of their bytes
TempLSBs == {0, 80, 94, 144, 208, 255}

TempMSBs == {0, 5, 7, 252, 255}

\* the scratchpad of a device: temperature, alarm limits, configuration
\* (resolution in bits 5 and 6), reserved bytes and the CRC of the first eight
MkPad(lsb, msb, resolution) ==
    LET p == <<lsb, msb, 75, 70, resolution * 32 + 31, 255, 12, 16>>
    IN  Append(p, Crc8OfSeq(ClearCrc8Value, p))

DevicePads == {MkPad(lsb, msb, resolution) : lsb \in TempLSBs, msb \in TempMSBs,
                                             resolution \in 0..3}

\* the index of the OneWireReceiveByte that returns -1 (9: none does), and
\* whether the last byte arrives damaged
PadReadFailures == {0, 8, 9}

PadAsReceived(p, failed, damaged) ==
    [i \in 1..9 |-> IF i = failed + 1 THEN -1
                    ELSE IF i = 9 /\ damaged THEN (p[9] + 1) % 256
                    ELSE p[i]]

InitTemp == InitCrc

tempFrame == <<devices, OneWireROM, cursorVars, lastOp, enumLog, enumOn, enumFamily,
               crcFed, bus, uartVars, framing>>

\* ds18b20.c:137-160 ; a second read in a row is not explored: what it leaves
\* does not depend on what the first one left, unless the command byte fails
Ds18b20ReadScratchpad(sendOk, recv) ==
    /\ thermo.name # "Ds18b20ReadScratchpad"
    /\ \E r \in {Ds18b20ReadScratchpadResult(Ds18b20ScratchPad, crc8, sendOk, recv)} :
          /\ Ds18b20ScratchPad' = r.pad
          /\ crc8' = r.crc
          /\ thermo' = [name |-> "Ds18b20ReadScratchpad", status |-> r.status, value |-> 0]
    /\ UNCHANGED tempFrame

\* ds18b20.c:197-218
GetScratchpadCelsiusCall ==
    /\ thermo.name # "GetScratchpadCelsius"
    /\ thermo' = [name |-> "GetScratchpadCelsius", status |-> TRUE,
                  value |-> GetScratchpadCelsius(Ds18b20ScratchPad)]
    /\ UNCHANGED <<Ds18b20ScratchPad, crc8>>
    /\ UNCHANGED tempFrame

\* the scratchpads whose transfer may fail
FailingPads == {MkPad(80, 5, 3), MkPad(94, 255, 0)}

NextTemp ==
    \/ \E p \in DevicePads : Ds18b20ReadScratchpad(TRUE, p)
    \/ \E p \in FailingPads, failed \in PadReadFailures, damaged \in BOOLEAN :
          Ds18b20ReadScratchpad(TRUE, PadAsReceived(p, failed, damaged))
    \/ \E p \in FailingPads : Ds18b20ReadScratchpad(FALSE, p)
    \/ GetScratchpadCelsiusCall

SpecTemp == InitTemp /\ [][NextTemp]_vars

(***************************************************************************)
(* The DS18B20 commands that may power the device through the strong       *)
(* pullup (ds18b20.c:60-130), on the serial adapter.  The environment      *)
(* decides once per command whether close() and UART_Open() succeed, on    *)
(* which read() attempt the echo arrives and whether the echo is the octet *)
(* written or 0.                                                           *)
(***************************************************************************)
PowerEnvs ==
    [closeOk : BOOLEAN, openOk : BOOLEAN, arrive : {1, RetryLimit + 1}, faithful : BOOLEAN]

\* what OneWireUartReadByte gives after the octet of a 0 bit and of a 1 bit
\* was written; the retry loop is run once for each octet
EchoReads(env) ==
    [bit \in {0, 1} |-> OneWireUartReadByte(env.arrive,
                            IF env.faithful THEN WriteBitOctet(bit) ELSE 0)]

\* OneWireWriteBit (onewire.c:66-69, onewireuart.c:203-228) from the adapter
\* state st: the descriptor, rate and pin level left, the status so far
\* ('status &=', onewire.c:102) and the record of this write
WriteBitOnUart(st, bit, enableStrongPullup, env, reads) ==
    LET Failed(sp) ==
            [st EXCEPT !.fd = sp.fd, !.baud = sp.baud, !.status = FALSE,
                       !.last = UartOp("WriteBit", FALSE, FALSE, bit, enableStrongPullup, -1,
                                       sp.baud, st.level, NoRead)]
        Written(sp, wr, r) ==
            [st EXCEPT !.fd = sp.fd, !.baud = sp.baud, !.level = wr.left,
                       !.status = st.status /\ WriteBitEchoOk(r.data, WriteBitOctet(bit)),
                       !.last = UartOp("WriteBit", WriteBitEchoOk(r.data, WriteBitOctet(bit)),
                                       TRUE, bit, enableStrongPullup, WriteBitOctet(bit),
                                       sp.baud, wr.during, r)]
        After(sp) ==
            IF ~sp.ret THEN Failed(sp)
            ELSE Only({Written(sp, wr, r) :
                          wr \in {OneWireUartWriteByte(st.gpioFd, st.level, enableStrongPullup)},
                          r \in {reads[bit]}})
    IN  Only({After(sp) : sp \in {OneWireUartSetSpeed(st.id, st.fd, st.baud, FastBaud,
                                                      env.closeOk, env.openOk)}})

\* onewire.c:98-107 on the adapter: the bits of the byte, first to last
RECURSIVE SendByteOnUart(_, _, _, _, _)
SendByteOnUart(st, bitsLeft, enableStrongPullup, env, reads) ==
    IF bitsLeft = <<>> THEN st
    ELSE Only({SendByteOnUart(next, Tail(bitsLeft), enableStrongPullup, env, reads) :
                  next \in {WriteBitOnUart(st, Head(bitsLeft), enableStrongPullup, env,
                                           reads)}})

\* OneWireSendByte and OneWireSendByteWithPullup (onewire.c:114-128) from the
\* adapter state of the model
SendByteNow(data, enableStrongPullup, env) ==
    Only({SendByteOnUart([id |-> uartId, fd |-> uartFd, baud |-> uartBaud,
                          gpioFd |-> gpioPullupFd, level |-> gpioValue, status |-> TRUE,
                          last |-> uartOp],
                         SendBits(data, 0), enableStrongPullup, env, reads) :
             reads \in {EchoReads(env)}})

\* ds18b20.c:64-79 : the conversion time in milliseconds
ConversionDelay(currentResolution) ==
    CASE currentResolution = 0 -> 94
      [] currentResolution = 1 -> 188
      [] currentResolution = 2 -> 375
      [] OTHER -> 750

powerFrame == <<devices, OneWireROM, cursorVars, crc8, lastOp, enumLog, enumOn,
                enumFamily, crcFed, bus, framing>>

\* ds18b20.c:60-91
Ds18b20ConvertT(enableStrongPullUp, currentResolution, env) ==
    /\ \E r \in {SendByteNow(68, enableStrongPullUp, env)} :
          /\ uartFd' = r.fd
          /\ uartBaud' = r.baud
          /\ gpioValue' = IF enableStrongPullUp THEN SetPullup(gpioPullupFd, r.level, 0)
                          ELSE r.level
          /\ uartOp' = r.last
          /\ thermo' = [name |-> "Ds18b20ConvertT", status |-> r.status,
                        value |-> ConversionDelay(currentResolution)]
    /\ UNCHANGED <<uartId, gpioPullupFd, Ds18b20ScratchPad>>
    /\ UNCHANGED powerFrame

\* ds18b20.c:122-130 : the byte sent is 0x44; the pullup is not touched after
\* the 10 ms wait
Ds18b20CopyScratchpad(enableStrongPullUp, env) ==
    /\ \E r \in {SendByteNow(68, enableStrongPullUp, env)} :
          /\ uartFd' = r.fd
          /\ uartBaud' = r.baud
          /\ gpioValue' = r.level
          /\ uartOp' = r.last
          /\ thermo' = [name |-> "Ds18b20CopyScratchpad", status |-> r.status, value |-> 10]
    /\ UNCHANGED <<uartId, gpioPullupFd, Ds18b20ScratchPad>>
    /\ UNCHANGED powerFrame

\* onewire.c:84-87 with OneWireDisableStrongPullupGpio (onewireuart.c:269-272)
OneWireDisableStrongPullup ==
    /\ gpioValue' = SetPullup(gpioPullupFd, gpioValue, 0)
    /\ uartOp' = UartOp("DisableStrongPullup", 0, FALSE, 0, FALSE, -1, uartBaud, gpioValue,
                        NoRead)
    /\ UNCHANGED <<uartId, uartFd, uartBaud, gpioPullupFd>>
    /\ UNCHANGED searchFrame

InitPower == InitUart

NextPower ==
    \/ \E gpioOk, closeOk, openOk \in BOOLEAN : OneWireInit(gpioOk, closeOk, openOk)
    \/ \E released \in BOOLEAN : OneWireClose(released)
    \/ \E enableStrongPullUp \in BOOLEAN, currentResolution \in 0..3, env \in PowerEnvs :
          Ds18b20ConvertT(enableStrongPullUp, currentResolution, env)
    \/ \E enableStrongPullUp \in BOOLEAN, env \in PowerEnvs :
          Ds18b20CopyScratchpad(enableStrongPullUp, env)
    \/ OneWireDisableStrongPullup

SpecPower == InitPower /\ [][NextPower]_vars

(***************************************************************************)
(* TemperatureTimerEventHandler (main.c:128-215) on a fault-free bus with  *)
(* a fixed device set.  The position of the handler is the step that       *)
(* returned last (lastOp.name); enumLog holds the OneWireSearchROM calls   *)
(* of the loop.                                                            *)
(***************************************************************************)
\* main.c:151 : the family code of the DS18B20
Ds18b20FamilyCode == 40

\* what the nine OneWireReceiveByte calls of Ds18b20ReadScratchpad return in
\* the loop: a scratchpad, or one whose last byte is not received
PollReads == {MkPad(80, 5, 3), PadAsReceived(MkPad(94, 255, 0), 8, FALSE)}

InitPoll == Init

\* main.c:132-151 : the timer fires; when the event cannot be consumed the
\* handler sets the exit code and returns, otherwise OneWireSkipROM and
\* Ds18b20ConvertT address all devices (they leave the identifier, the
\* cursor and the accumulator alone) and OneWireTargetSetup(0x28) starts the
\* enumeration
TemperatureTimerStart(consumed) ==
    /\ lastOp.name \in {"none", "SetTemperatureLED"}
    /\ IF consumed
       THEN OneWireTargetSetup(Ds18b20FamilyCode)
       ELSE /\ lastOp' = Op("TimerExit", FALSE, NoFault, 0)
            /\ UNCHANGED <<devices, OneWireROM, cursorVars, crc8, enumLog, enumOn,
                           enumFamily, crcFed, bus>>
            /\ UNCHANGED <<uartVars, framing, tempVars>>

\* main.c:158-166 : the head of the loop
PollSearch ==
    /\ lastOp.name \in {"TargetSetup", "ReadDevice"}
    /\ OneWireSearchROM(FALSE, NoFault)

\* main.c:168-211 : the rest of the loop body after OneWireSearchROM returned
\* true: OneWireMatchROM, Ds18b20ReadPowerSupplyVCC, OneWireMatchROM,
\* Ds18b20ReadScratchpad and, when that succeeds, the temperature
ReadDevice(recv) ==
    /\ lastOp.name = "SearchROM"
    /\ lastOp.ret
    /\ \E r \in {Ds18b20ReadScratchpadResult(Ds18b20ScratchPad, crc8, TRUE, recv)} :
          /\ Ds18b20ScratchPad' = r.pad
          /\ crc8' = r.crc
          /\ thermo' = IF r.status
                       THEN [name |-> "GetScratchpadCelsius", status |-> TRUE,
                             value |-> GetScratchpadCelsius(r.pad)]
                       ELSE [name |-> "Ds18b20ReadScratchpad", status |-> FALSE, value |-> 0]
          /\ lastOp' = Op("ReadDevice", r.status, NoFault, 0)
    /\ bus' = NoBus
    /\ UNCHANGED <<devices, OneWireROM, cursorVars, enumLog, enumOn, enumFamily, crcFed>>
    /\ UNCHANGED <<uartVars, framing>>

\* main.c:163-166 and 214 : OneWireSearchROM returned false, the loop is
\* left and the LED is set
SetTemperatureLED ==
    /\ lastOp.name = "SearchROM"
    /\ ~lastOp.ret
    /\ lastOp' = Op("SetTemperatureLED", TRUE, NoFault, 0)
    /\ UNCHANGED <<devices, OneWireROM, cursorVars, crc8, enumLog, enumOn, enumFamily,
                   crcFed, bus>>
    /\ UNCHANGED <<uartVars, framing, tempVars>>

NextPoll ==
    \/ \E consumed \in BOOLEAN : TemperatureTimerStart(consumed)
    \/ PollSearch
    \/ \E recv \in PollReads : ReadDevice(recv)
    \/ SetTemperatureLED

\* the handler runs to completion: a step that can be taken is taken
SpecPoll == InitPoll /\ [][NextPoll]_vars /\ WF_vars(NextPoll)

(***************************************************************************)
(* Properties.                                                             *)
(***************************************************************************)
Min(a, b) == IF a < b THEN a ELSE b

\* every attached identifier has a nonzero family code
NonZeroFamily(D) == \A d \in D : d[1] # 0

\* a comes before b in the order of the identifier bitstream
Less(a, b) ==
    \E p \in 1..64 : /\ BitOf(a, p) = 0
                     /\ BitOf(b, p) = 1
                     /\ \A q \in 1..(p - 1) : BitOf(a, q) = BitOf(b, q)

\* the first position at which two different identifiers differ
FirstDiff(a, b) ==
    CHOOSE p \in 1..64 : /\ BitOf(a, p) # BitOf(b, p)
                         /\ \A q \in 1..(p - 1) : BitOf(a, q) = BitOf(b, q)

\* enumLog follows an enumeration started by OneWireResetSearch
FullEnum == enumOn /\ enumFamily = -1

\* enumLog follows an enumeration started by OneWireTargetSetup
TargetEnum == enumOn /\ enumFamily # -1

\* the first n calls of the enumeration all returned true
AllTrue(n) == \A i \in 1..n : enumLog[i].ret

\* C1 as stated: from OneWireResetSearch on a bus with N >= 1 devices, the
\* first N calls of OneWireSearchROM(false) return true and leave exactly the
\* N attached identifiers, each once.
C1_Original ==
    (FullEnum /\ devices # {}) =>
        LET N == Cardinality(devices)
        IN  /\ AllTrue(Min(Len(enumLog), N))
            /\ Len(enumLog) >= N => {enumLog[i].rom : i \in 1..N} = devices

\* C1 amended: the same, for devices whose family codes are all nonzero.
C1_Completeness ==
    (FullEnum /\ devices # {} /\ NonZeroFamily(devices)) =>
        LET N == Cardinality(devices)
        IN  /\ AllTrue(Min(Len(enumLog), N))
            /\ Len(enumLog) >= N => {enumLog[i].rom : i \in 1..N} = devices

C1_Witness ==
    /\ FullEnum
    /\ Cardinality(devices) = 3
    /\ NonZeroFamily(devices)
    /\ Len(enumLog) = 3
    /\ {enumLog[i].rom : i \in 1..3} = devices

\* C2: within an enumeration started by OneWireResetSearch, two successive
\* successful calls of OneWireSearchROM(false) produce identifiers in strictly
\* ascending order of the identifier bitstream.
C2_Ascending ==
    FullEnum =>
        \A i \in 1..(Len(enumLog) - 1) :
            (enumLog[i].ret /\ enumLog[i + 1].ret) =>
                Less(enumLog[i].rom, enumLog[i + 1].rom)

C2_Witness ==
    /\ FullEnum
    /\ Len(enumLog) >= 3
    /\ AllTrue(3)
    /\ Less(enumLog[1].rom, enumLog[2].rom)
    /\ Less(enumLog[2].rom, enumLog[3].rom)

\* C3: after the N successful calls of an enumeration over N devices, call N+1
\* returns false and leaves the identifier that call N returned.
C3_EnumerationEnd ==
    FullEnum =>
        LET N == Cardinality(devices)
        IN  (N >= 1 /\ Len(enumLog) >= N + 1 /\ AllTrue(N)) =>
                /\ ~enumLog[N + 1].ret
                /\ enumLog[N + 1].rom = enumLog[N].rom

C3_Witness ==
    /\ FullEnum
    /\ Cardinality(devices) = 2
    /\ Len(enumLog) = 3
    /\ AllTrue(2)
    /\ ~enumLog[3].ret
    /\ OneWireROM = enumLog[2].rom

\* C4 as stated: after OneWireTargetSetup(F), every OneWireSearchROM call that
\* returns true (before any failed call resets the search) leaves an
\* identifier whose first byte is F.
C4_TargetFilter ==
    TargetEnum =>
        \A i \in 1..Len(enumLog) : AllTrue(i) => enumLog[i].rom[1] = enumFamily

\* C5 as stated: after OneWireTargetSetup(F) on a bus with devices none of
\* which has family F, the first OneWireSearchROM call returns false.
C5_AbsentFamily ==
    (TargetEnum /\ Len(enumLog) >= 1 /\ devices # {}
        /\ \A d \in devices : d[1] # enumFamily) => ~enumLog[1].ret

\* what C6 says of a two-device bus {a, b} with a before b
TwoDevicePasses(a, b) ==
    LET k == FirstDiff(a, b)
    IN  /\ Len(enumLog) >= 1 =>
              /\ enumLog[1].ret
              /\ enumLog[1].rom = a
              /\ BitOf(enumLog[1].rom, k) = 0
              /\ enumLog[1].ld = k
              /\ enumLog[1].ldf = 0
        /\ Len(enumLog) >= 2 =>
              /\ enumLog[2].ret
              /\ \A q \in 1..(k - 1) : BitOf(enumLog[2].rom, q) = BitOf(enumLog[1].rom, q)
              /\ BitOf(enumLog[2].rom, k) = 1
              /\ enumLog[2].rom = b
              /\ enumLog[2].ldf = 1

\* C6 as stated: on a two-device bus whose identifiers first differ at bit k,
\* the first pass picks 0 at k, returns the device holding 0 there and leaves
\* lastDiscrepancy = k with the flag clear; the second picks 1 at k, returns
\* the other device and sets the flag.
C6_Original ==
    (FullEnum /\ Cardinality(devices) = 2) =>
        \A a, b \in devices : Less(a, b) => TwoDevicePasses(a, b)

\* C6 amended: the same, for two devices with nonzero family codes.
C6_Collision ==
    (FullEnum /\ Cardinality(devices) = 2 /\ NonZeroFamily(devices)) =>
        \A a, b \in devices : Less(a, b) => TwoDevicePasses(a, b)

C6_Witness ==
    /\ FullEnum
    /\ devices = {DevA, DevC}
    /\ Len(enumLog) = 2
    /\ enumLog[1].ld = 56
    /\ enumLog[2].rom = DevC
    /\ OneWireLastDeviceFlag = 1

\* C7: OneWireVerifyROM returns with the three cursor fields and the eight
\* identifier bytes as they were before the call, whatever the bus does.
C7_VerifyRestores ==
    [][(lastOp'.name = "VerifyROM") =>
           /\ OneWireROM' = OneWireROM
           /\ OneWireLastDeviceFlag' = OneWireLastDeviceFlag
           /\ OneWireLastDiscrepancy' = OneWireLastDiscrepancy
           /\ OneWireLastFamilyDiscrepancy' = OneWireLastFamilyDiscrepancy]_vars

C7_Witness ==
    /\ lastOp.name = "VerifyROM"
    /\ lastOp.faulty
    /\ ~lastOp.ret
    /\ OneWireROM \in devices
    /\ OneWireLastDiscrepancy > 0
    /\ OneWireLastFamilyDiscrepancy > 0

\* C8 as stated: on a fault-free bus OneWireVerifyROM returns true if and only
\* if a device whose identifier equals the current identifier is attached.
C8_Original ==
    (lastOp.name = "VerifyROM") => (lastOp.ret <=> OneWireROM \in devices)

\* C8 amended: ... if and only if such a device is attached and its family
\* code is nonzero.
C8_VerifyResult ==
    (lastOp.name = "VerifyROM") =>
        (lastOp.ret <=> (OneWireROM \in devices /\ OneWireROM[1] # 0))

C8_Witness ==
    /\ lastOp.name = "VerifyROM"
    /\ lastOp.ret
    /\ Cardinality(devices) = 3
    /\ OneWireROM \in devices
    /\ OneWireLastDeviceFlag = 1

\* a OneWireSearchROM(false) pass started from OneWireResetSearch
FirstPass == OneWireSearchROMResult(ZeroROM, 0, 0, 0, FALSE, devices, NoFault)

\* C9 as stated: with exactly one device attached, OneWireSingleReadROM and a
\* search pass started from OneWireResetSearch both succeed and leave the same
\* identifier, that of the device.
C9_Original ==
    (lastOp.name = "SingleReadROM" /\ Cardinality(devices) = 1) =>
        /\ lastOp.ret
        /\ FirstPass.ret
        /\ FirstPass.rom = OneWireROM
        /\ devices = {OneWireROM}

\* C9 amended: the same, for a device with a nonzero family code.
C9_SingleDevice ==
    (lastOp.name = "SingleReadROM" /\ Cardinality(devices) = 1 /\ NonZeroFamily(devices)) =>
        /\ lastOp.ret
        /\ FirstPass.ret
        /\ FirstPass.rom = OneWireROM
        /\ devices = {OneWireROM}

C9_Witness ==
    /\ lastOp.name = "SingleReadROM"
    /\ lastOp.ret
    /\ devices = {DevE}
    /\ OneWireROM = DevE

\* C10: feeding the accumulator value reached after seven bytes as the eighth
\* byte leaves the accumulator at 0.
C10_CrcRoundTrip == (Len(crcFed) = 8) => (crc8 = 0)

C10_Witness ==
    /\ Len(crcFed) = 8
    /\ crcFed[1] = 40
    /\ crcFed[8] # 0
    /\ crc8 = 0

\* C11 as stated: a OneWireSearchROM call made while OneWireLastDeviceFlag is
\* set does nothing on the bus, returns false and leaves the three cursor
\* fields as they were before the call.
C11_Original ==
    [][(lastOp'.name = "SearchROM" /\ OneWireLastDeviceFlag # 0) =>
          /\ bus' = NoBus
          /\ ~lastOp'.ret
          /\ UNCHANGED cursorVars]_vars

\* C11 amended: such a call does nothing on the bus, returns false, leaves the
\* identifier as it was and returns with the three cursor fields at 0.
C11_ExhaustedCall ==
    [][(lastOp'.name = "SearchROM" /\ OneWireLastDeviceFlag # 0) =>
          /\ bus' = NoBus
          /\ ~lastOp'.ret
          /\ OneWireROM' = OneWireROM
          /\ OneWireLastDeviceFlag' = 0
          /\ OneWireLastDiscrepancy' = 0
          /\ OneWireLastFamilyDiscrepancy' = 0]_vars

\* a call that did nothing on the bus, after a pass that found a device
C11_Witness ==
    /\ lastOp.name = "SearchROM"
    /\ ~lastOp.ret
    /\ bus = NoBus
    /\ devices # {}
    /\ OneWireROM \in devices
    /\ OneWireLastDeviceFlag = 0

\* C12: whenever OneWireSearchROM returns false (the reset did not report
\* DevicePresent, the pass was broken off or ended with a nonzero CRC, or the
\* first identifier byte is zero), the three cursor fields are 0 on return.
C12_FailedSearchResets ==
    (lastOp.name = "SearchROM" /\ ~lastOp.ret) =>
        /\ OneWireLastDiscrepancy = 0
        /\ OneWireLastDeviceFlag = 0
        /\ OneWireLastFamilyDiscrepancy = 0

\* a pass over two devices that walked all 64 positions and failed on the CRC
C12_Witness ==
    /\ lastOp.name = "SearchROM"
    /\ ~lastOp.ret
    /\ lastOp.faulty
    /\ Cardinality(devices) = 2
    /\ bus.reset = "DevicePresent"
    /\ bus.reads = 128
    /\ crc8 # 0
    /\ OneWireLastDiscrepancy = 0

\* C13: in OneWireMatchROM, OneWireSkipROM and OneWireSingleReadROM, when the
\* reset does not answer DevicePresent nothing more is put on the bus (no
\* command byte, no bit written or read) and the cursor is unchanged.
C13_AbortOnFailedReset ==
    [][(lastOp'.name \in {"MatchROM", "SkipROM", "SingleReadROM"}
        /\ bus'.reset # "DevicePresent") =>
          /\ bus'.sent = <<>>
          /\ bus'.writes = 0
          /\ bus'.reads = 0
          /\ UNCHANGED cursorVars]_vars

\* C14: OneWireMatchROM and OneWireSkipROM return true only when the reset
\* answered DevicePresent and every byte send returned true.
C14_AddressingResult ==
    (lastOp.name \in {"MatchROM", "SkipROM"} /\ lastOp.ret) =>
        /\ bus.reset = "DevicePresent"
        /\ bus.sendOk

\* C15: OneWireSingleReadROM returns true exactly when its eight
\* OneWireReceiveByte calls all succeed and the CRC8 of the eight bytes is 0;
\* on true the identifier is the eight bytes read, in order; on false the
\* identifier is unchanged; the cursor is never changed.
C15_SingleReadAtomic ==
    [][(lastOp'.name = "SingleReadROM") =>
          /\ lastOp'.ret <=> (/\ Len(bus'.recv) = 8
                              /\ \A i \in 1..8 : bus'.recv[i] # -1
                              /\ Crc8OfSeq(ClearCrc8Value, bus'.recv) = 0)
          /\ lastOp'.ret => (OneWireROM' = bus'.recv)
          /\ (~lastOp'.ret) => (OneWireROM' = OneWireROM)
          /\ UNCHANGED cursorVars]_vars

\* eight bytes were read, their CRC was refused and the identifier found by
\* an earlier search is still in place
C15_Witness ==
    /\ lastOp.name = "SingleReadROM"
    /\ ~lastOp.ret
    /\ Len(bus.recv) = 8
    /\ \A i \in 1..8 : bus.recv[i] # -1
    /\ OneWireROM \in devices
    /\ bus.recv # OneWireROM
    /\ OneWireLastDeviceFlag = 1

\* C16: in OneWireSearchROM, once a OneWireWriteBit or OneWireReadBit call
\* made after the reset has failed, no further bit is written or read and the
\* call returns false.
C16_AbortAtOnce ==
    (lastOp.name = "SearchROM" /\ bus.failed) =>
        /\ bus.after = 0
        /\ ~lastOp.ret

\* the bits 1..(p - 1) of identifiers a and b are the same
SamePrefix(a, b, p) == \A q \in 1..(p - 1) : BitOf(a, q) = BitOf(b, q)

\* the last position at which the walk that ended on rom met a collision
\* among the devices of D and went to 0 (0 if there is none)
LastZeroChosen(rom, D) ==
    LET Z == {p \in 1..64 : /\ BitOf(rom, p) = 0
                            /\ \E d \in D : SamePrefix(d, rom, p) /\ BitOf(d, p) = 0
                            /\ \E d \in D : SamePrefix(d, rom, p) /\ BitOf(d, p) = 1}
    IN  IF Z = {} THEN 0 ELSE CHOOSE p \in Z : \A q \in Z : q <= p

\* C17: whenever OneWireSearchROM returns true, the pass read both bits and
\* wrote the direction at all 64 positions, the CRC8 of the eight identifier
\* bytes is 0, the first byte is nonzero, OneWireLastDiscrepancy is the last
\* position where the pass took 0 on a collision (0 if none), and
\* OneWireLastDeviceFlag is set exactly when that position is 0.
C17_SuccessfulPass ==
    (lastOp.name = "SearchROM" /\ lastOp.ret) =>
        /\ bus.reads = 128
        /\ bus.writes = 8 + 64
        /\ Crc8OfSeq(ClearCrc8Value, OneWireROM) = 0
        /\ OneWireROM[1] # 0
        /\ OneWireLastDiscrepancy = LastZeroChosen(OneWireROM, devices)
        /\ (OneWireLastDeviceFlag = 1) <=> (OneWireLastDiscrepancy = 0)

\* a pass that found a device and left a branch to explore
C17_Witness ==
    /\ lastOp.name = "SearchROM"
    /\ lastOp.ret
    /\ OneWireROM \in devices
    /\ OneWireLastDiscrepancy > 8
    /\ OneWireLastDeviceFlag = 0

\* C18: OneWireReset returns HardwareFailure when the slow rate cannot be
\* set, and otherwise transmits 0xF0 at the slow rate and returns NoData when
\* no echo is received, NoDevices when the echo is 0xF0 and DevicePresent for
\* every other echo; the result is always one of these four.
C18_ResetClassification ==
    (uartOp.name = "Reset") =>
        /\ uartOp.ret \in {"DevicePresent", "NoDevices", "NoData", "HardwareFailure"}
        /\ (~uartOp.speedOk) => (uartOp.ret = "HardwareFailure" /\ uartOp.sent = -1)
        /\ uartOp.speedOk =>
              /\ uartOp.sent = 240
              /\ uartOp.baud = 9600
              /\ (uartOp.echo = -1) => (uartOp.ret = "NoData")
              /\ (uartOp.echo = 240) => (uartOp.ret = "NoDevices")
              /\ (uartOp.echo \notin {-1, 240}) => (uartOp.ret = "DevicePresent")

\* a reset echoed as 0xF8 on the last read attempt
C18_Witness ==
    /\ uartOp.name = "Reset"
    /\ uartOp.ret = "DevicePresent"
    /\ uartOp.echo = 248
    /\ uartOp.attempts = 100

\* C19: OneWireWriteBit transmits 0xFF for a nonzero bit and 0x00 for a zero
\* bit, and returns true exactly when the fast rate was set and an echo equal
\* to the octet sent was received.
C19_WriteBitResult ==
    (uartOp.name = "WriteBit") =>
        /\ uartOp.speedOk => (uartOp.sent = IF uartOp.bit # 0 THEN 255 ELSE 0)
        /\ uartOp.speedOk => (uartOp.baud = 115200)
        /\ (~uartOp.speedOk) => (uartOp.sent = -1)
        /\ uartOp.ret <=> (uartOp.speedOk /\ uartOp.echo # -1 /\ uartOp.echo = uartOp.sent)

\* a zero bit whose echo differs in one bit
C19_Witness ==
    /\ uartOp.name = "WriteBit"
    /\ uartOp.bit = 0
    /\ uartOp.sent = 0
    /\ uartOp.echo = 1
    /\ ~uartOp.ret

\* C20: OneWireReadBit transmits 0xFF and returns 1 when the echo is 0xFF, 0
\* for any other echo, and -1 when no echo is received or the fast rate
\* cannot be set; it returns nothing else.
C20_ReadBitResult ==
    (uartOp.name = "ReadBit") =>
        /\ uartOp.ret \in {-1, 0, 1}
        /\ uartOp.speedOk => (uartOp.sent = 255 /\ uartOp.baud = 115200)
        /\ (uartOp.ret = 1) <=> (uartOp.speedOk /\ uartOp.echo = 255)
        /\ (uartOp.ret = -1) <=> ((~uartOp.speedOk) \/ uartOp.echo = -1)
        /\ (uartOp.ret = 0) <=> (uartOp.speedOk /\ uartOp.echo \notin {-1, 255})

\* a probe that a device held low for part of the octet
C20_Witness ==
    /\ uartOp.name = "ReadBit"
    /\ uartOp.sent = 255
    /\ uartOp.echo = 248
    /\ uartOp.ret = 0

\* C21: in every operation that hands an octet to the UART, the pullup pin is
\* low while the octet is handed over, and it is high afterwards exactly when
\* the operation is a write-bit with enableStrongPullup set.
C21_PullupOrdering ==
    (uartOp.name \in {"Reset", "WriteBit", "ReadBit"} /\ uartOp.sent # -1) =>
        /\ uartOp.gpioAtWrite = 0
        /\ (gpioValue = 1) <=> (uartOp.name = "WriteBit" /\ uartOp.pullup)

\* C22: whenever 0xF0 is handed to the UART the channel is open at 9600, and
\* whenever a bit octet is handed to it the channel is open at 115200; when
\* the rate cannot be set the operation hands over nothing and returns its
\* failure value.
C22_RateAtTransmit ==
    /\ (uartOp.name = "Reset" /\ uartOp.sent # -1) =>
          (uartOp.sent = 240 /\ uartOp.baud = 9600 /\ uartBaud = 9600 /\ uartFd >= 0)
    /\ (uartOp.name \in {"WriteBit", "ReadBit"} /\ uartOp.sent # -1) =>
          (uartOp.sent \in {0, 255} /\ uartOp.baud = 115200 /\ uartBaud = 115200
           /\ uartFd >= 0)
    /\ (uartOp.name \in {"Reset", "WriteBit", "ReadBit"}) =>
          (uartOp.speedOk <=> uartOp.sent # -1)
    /\ (uartOp.name = "Reset" /\ ~uartOp.speedOk) => (uartOp.ret = "HardwareFailure")
    /\ (uartOp.name = "WriteBit" /\ ~uartOp.speedOk) => (uartOp.ret = FALSE)
    /\ (uartOp.name = "ReadBit" /\ ~uartOp.speedOk) => (uartOp.ret = -1)

\* a write-bit of an initialised adapter whose switch to the fast rate failed
C22_Witness ==
    /\ uartOp.name = "WriteBit"
    /\ uartId # -1
    /\ ~uartOp.speedOk
    /\ uartOp.sent = -1
    /\ uartOp.ret = FALSE
    /\ uartFd = -1

\* C23: one call of OneWireUartReadByte makes at most 100 read() attempts; it
\* returns the octet of the first attempt that yields a byte, having made no
\* attempt after it, and returns -1 after exactly 100 attempts when none of
\* them yields a byte.
C23_BoundedRetry ==
    (uartOp.name \in {"Reset", "WriteBit", "ReadBit"} /\ uartOp.sent # -1) =>
        /\ uartOp.attempts \in 1..100
        /\ (uartOp.arrive <= 100) => (uartOp.echo = uartOp.octet /\ uartOp.attempts = uartOp.arrive)
        /\ (uartOp.arrive > 100) => (uartOp.echo = -1 /\ uartOp.attempts = 100)
        /\ uartOp.echo \in {-1} \cup Byte

\* the octet arrived on the hundredth attempt
C23_Witness ==
    /\ uartOp.name = "ReadBit"
    /\ uartOp.arrive = 100
    /\ uartOp.attempts = 100
    /\ uartOp.echo = 248

\* the eight bits of byte b from bit 0 upwards
BitsLsbFirst(b) == [i \in 1..8 |-> (b \div Pow2(i - 1)) % 2]

\* C24: after its reset OneWireMatchROM sends 0x55 and then bytes 0..7 of the
\* current identifier, OneWireSkipROM sends 0xCC, OneWireSingleReadROM sends
\* 0x33, and a OneWireSearchROM whose reset found a device sends 0xF0 (normal)
\* or 0xEC (alarm); the command byte is the first byte sent after the reset
\* and every byte goes out as eight write-bits, bit 0 first.
C24_CommandBytes ==
    /\ (lastOp.name = "MatchROM") =>
          (bus.reset # "none" /\ bus.sent = <<85>> \o OneWireROM)
    /\ (lastOp.name = "SkipROM") => (bus.reset # "none" /\ bus.sent = <<204>>)
    /\ (lastOp.name = "SingleReadROM") => (bus.reset # "none" /\ bus.sent = <<51>>)
    /\ (lastOp.name = "SearchROM" /\ bus.reset = "DevicePresent") =>
          (bus.sent = <<IF lastOp.arg = 1 THEN 236 ELSE 240>>)
    /\ (lastOp.name \in {"MatchROM", "SkipROM", "SingleReadROM", "SearchROM"}) =>
          /\ Len(bus.bits) = 8 * Len(bus.sent)
          /\ \A k \in 1..Len(bus.sent) : \A i \in 1..8 :
                bus.bits[8 * (k - 1) + i] = BitsLsbFirst(bus.sent[k])[i]

\* OneWireMatchROM addressed DevB after a search had found it
C24_Witness ==
    /\ lastOp.name = "MatchROM"
    /\ OneWireROM = DevB
    /\ Len(bus.sent) = 9
    /\ SubSeq(bus.bits, 1, 8) = <<1, 0, 1, 0, 1, 0, 1, 0>>
    /\ SubSeq(bus.bits, 9, 16) = <<0, 0, 0, 1, 0, 1, 0, 0>>

\* the number whose bit i is r[i + 1]
RECURSIVE BitSum(_, _)
BitSum(r, i) == IF i = 8 THEN 0 ELSE r[i + 1] * Pow2(i) + BitSum(r, i + 1)

\* C25: sending byte b issues exactly eight write-bits, the i-th of them being
\* bit i of b; a receive whose eight bit reads all succeed returns the sum of
\* r_i * 2^i, a value in 0..255; and receiving the bits that sending b put on
\* the bus returns b.
C25_ByteFraming ==
    /\ (framing.op \in {"send", "receive"}) =>
          /\ framing.calls = 8
          /\ Len(framing.bits) = 8
          /\ \A i \in 0..7 : framing.bits[i + 1] = (framing.data \div Pow2(i)) % 2
    /\ (framing.op = "receive" /\ \A k \in 1..8 : framing.reads[k] # -1) =>
          /\ framing.value = BitSum(framing.reads, 0)
          /\ framing.value \in 0..255
          /\ (framing.reads = framing.bits) => (framing.value = framing.data)

\* 0xA5 was sent and received back
C25_Witness ==
    /\ framing.op = "receive"
    /\ framing.data = 165
    /\ framing.bits = <<1, 0, 1, 0, 0, 1, 0, 1>>
    /\ framing.reads = framing.bits
    /\ framing.value = 165

\* C30: OneWireSendByte and OneWireSendByteWithPullup call OneWireWriteBit
\* eight times whatever the earlier calls returned, each call with the
\* function's pullup request, and return true exactly when all eight calls
\* returned true.
C30_SendByteStatus ==
    (framing.op = "send") =>
        /\ framing.calls = 8
        /\ Len(framing.bits) = 8
        /\ framing.status <=> (\A i \in 0..7 : framing.ok[i])
        /\ \A i \in 1..8 : framing.pullups[i] = framing.pullup

\* the first bit write of OneWireSendByteWithPullup failed
C30_Witness ==
    /\ framing.op = "send"
    /\ framing.pullup
    /\ ~framing.ok[0]
    /\ \A i \in 1..7 : framing.ok[i]
    /\ framing.calls = 8
    /\ ~framing.status

\* C26: after OneWireTargetSetup(familyId) the identifier is familyId followed
\* by seven zero bytes, OneWireLastDiscrepancy is 64, and OneWireLastDeviceFlag
\* and OneWireLastFamilyDiscrepancy are 0, whatever they were before.
C26_TargetSetupPost ==
    (lastOp.name = "TargetSetup") =>
        /\ OneWireROM = <<lastOp.arg, 0, 0, 0, 0, 0, 0, 0>>
        /\ OneWireLastDiscrepancy = 64
        /\ OneWireLastDeviceFlag = 0
        /\ OneWireLastFamilyDiscrepancy = 0

\* family 0x10 was set up after a OneWireSingleReadROM on a bus with two
\* devices had left the accumulator nonzero
C26_Witness ==
    /\ lastOp.name = "TargetSetup"
    /\ lastOp.arg = 16
    /\ OneWireROM = <<16, 0, 0, 0, 0, 0, 0, 0>>
    /\ OneWireLastDiscrepancy = 64
    /\ crc8 # 0

\* what C27 compares of two calls: return value, identifier and cursor
SearchOutcome(r) == <<r.ret, r.rom, r.ldf, r.ld, r.lfd>>

\* C27: the return value, the identifier and the cursor that OneWireSearchROM
\* and OneWireSingleReadROM leave are the same whether the call starts with
\* the value the accumulator holds or with a cleared accumulator.
C27_CleanScope ==
    (crc8 # 0) =>
        /\ \A alarmSearch \in BOOLEAN :
           \A a \in {OneWireSearchROMFrom(crc8, OneWireROM, OneWireLastDeviceFlag,
                                OneWireLastDiscrepancy, OneWireLastFamilyDiscrepancy,
                                alarmSearch, devices, NoFault)} :
           \A b \in {OneWireSearchROMFrom(0, OneWireROM, OneWireLastDeviceFlag,
                                OneWireLastDiscrepancy, OneWireLastFamilyDiscrepancy,
                                alarmSearch, devices, NoFault)} :
              SearchOutcome(a) = SearchOutcome(b)
        /\ \A a \in {OneWireSingleReadROMFrom(crc8, OneWireROM, devices, NoFault)} :
           \A b \in {OneWireSingleReadROMFrom(0, OneWireROM, devices, NoFault)} :
              a.ret = b.ret /\ a.rom = b.rom

\* the accumulator was left nonzero before OneWireResetSearch, and a search
\* from here finds a device
C27_Witness ==
    /\ crc8 # 0
    /\ OneWireSearchROMFrom(crc8, OneWireROM, OneWireLastDeviceFlag,
                            OneWireLastDiscrepancy, OneWireLastFamilyDiscrepancy,
                            FALSE, devices, NoFault).ret
    /\ lastOp.name = "ResetSearch"

\* the attached identifier that comes first in the order of the bitstream
FirstDevice(D) == CHOOSE d \in D : \A e \in D \ {d} : Less(d, e)

\* the OneWireSearchROM call made next in the current state
NextPass(alarmSearch) ==
    OneWireSearchROMResult(OneWireROM, OneWireLastDeviceFlag, OneWireLastDiscrepancy,
                           OneWireLastFamilyDiscrepancy, alarmSearch, devices, NoFault)

\* the first OneWireSearchROM call after OneWireResetSearch, on the same bus
ResetPass(alarmSearch) ==
    OneWireSearchROMResult(ZeroROM, 0, 0, 0, alarmSearch, devices, NoFault)

\* C28 as stated: after a OneWireSearchROM call that returned false, the next
\* OneWireSearchROM(false) call on a bus with devices returns true with the
\* first attached identifier.
C28_Original ==
    (lastOp.name = "SearchROM" /\ ~lastOp.ret /\ devices # {}) =>
        \A r \in {NextPass(FALSE)} : r.ret /\ r.rom = FirstDevice(devices)

\* C28 amended: after a OneWireSearchROM call that returned false, the next
\* call returns what the first call after OneWireResetSearch with the same
\* argument returns, with the same cursor and, when it returns true, the same
\* identifier, whatever bytes the identifier holds; when the attached devices
\* all have a nonzero family code, the next OneWireSearchROM(false) returns
\* true with the first attached identifier.
C28_RestartAfterFailure ==
    (lastOp.name = "SearchROM" /\ ~lastOp.ret) =>
        /\ \A alarmSearch \in BOOLEAN :
           \A r \in {NextPass(alarmSearch)} : \A q \in {ResetPass(alarmSearch)} :
              /\ r.ret = q.ret
              /\ <<r.ldf, r.ld, r.lfd>> = <<q.ldf, q.ld, q.lfd>>
              /\ r.ret => (r.rom = q.rom)
        /\ (devices # {} /\ NonZeroFamily(devices)) =>
              \A r \in {NextPass(FALSE)} : r.ret /\ r.rom = FirstDevice(devices)

\* an enumeration of two devices went past its end and the call after the
\* false one returned the first device again
C28_Witness ==
    /\ FullEnum
    /\ Cardinality(devices) = 2
    /\ Len(enumLog) = 4
    /\ ~enumLog[3].ret
    /\ enumLog[4].ret
    /\ enumLog[4].rom = FirstDevice(devices)
    /\ enumLog[2].rom # FirstDevice(devices)

\* C29: on a fault-free bus, when a successful pass has left identifier A and
\* OneWireLastDiscrepancy = d > 0, the next pass of the same kind of search
\* succeeds with an attached identifier B different from A that agrees with A
\* at positions 1..d-1 and has a 1 at position d, where A has a 0.
C29_CursorStep ==
    (lastOp.name = "SearchROM" /\ lastOp.ret /\ OneWireLastDiscrepancy > 0) =>
        \A r \in {NextPass(lastOp.arg = 1)} :
            /\ r.ret
            /\ SamePrefix(r.rom, OneWireROM, OneWireLastDiscrepancy)
            /\ BitOf(OneWireROM, OneWireLastDiscrepancy) = 0
            /\ BitOf(r.rom, OneWireLastDiscrepancy) = 1
            /\ r.rom \in devices
            /\ r.rom # OneWireROM

\* the second pass of an enumeration took the 1 branch at the position the
\* first pass had left in OneWireLastDiscrepancy
C29_Witness ==
    /\ FullEnum
    /\ Len(enumLog) >= 2
    /\ enumLog[1].ret
    /\ enumLog[1].ld > 8
    /\ enumLog[2].ret
    /\ enumLog[2].rom \in devices \ {enumLog[1].rom}
    /\ BitOf(enumLog[1].rom, enumLog[1].ld) = 0
    /\ BitOf(enumLog[2].rom, enumLog[1].ld) = 1
    /\ SamePrefix(enumLog[2].rom, enumLog[1].rom, enumLog[1].ld)

\* C33: at every return from OneWireResetSearch, OneWireTargetSetup,
\* OneWireVerifyROM and OneWireSearchROM, whatever the bus did,
\* OneWireLastDiscrepancy is in 0..64, OneWireLastFamilyDiscrepancy is in
\* 0..8, OneWireLastDeviceFlag is 0 or 1, and the flag is 1 only with
\* OneWireLastDiscrepancy = 0.
C33_CursorInvariant ==
    /\ OneWireLastDiscrepancy \in 0..64
    /\ OneWireLastFamilyDiscrepancy \in 0..8
    /\ OneWireLastDeviceFlag \in {0, 1}
    /\ (OneWireLastDeviceFlag = 1) => (OneWireLastDiscrepancy = 0)

\* a OneWireVerifyROM that met a fault returned after the last device of an
\* enumeration had been found
C33_Witness ==
    /\ lastOp.name = "VerifyROM"
    /\ lastOp.faulty
    /\ OneWireLastDeviceFlag = 1
    /\ OneWireLastDiscrepancy = 0

\* C34: at every return from OneWireInit, OneWireClose, OneWireReset,
\* OneWireReadBit and OneWireWriteBit, whatever close() and UART_Open did,
\* uartBaud is 0, 9600 or 115200, and it is nonzero exactly when uartFd is an
\* open descriptor.
C34_ChannelState ==
    /\ uartBaud \in {0, 9600, 115200}
    /\ (uartBaud # 0) <=> (uartFd >= 0)

\* a write-bit of an initialised adapter could not switch the rate and left
\* the channel closed
C34_Witness ==
    /\ uartOp.name = "WriteBit"
    /\ uartId # -1
    /\ ~uartOp.speedOk
    /\ uartFd = -1
    /\ uartBaud = 0
    /\ gpioPullupFd >= 0

\* C35: a OneWireSearchROM call that returns false leaves all eight bytes of
\* the identifier as they were before the call.
C35_FailedSearchKeepsROM ==
    [][(lastOp'.name = "SearchROM" /\ ~lastOp'.ret) => (OneWireROM' = OneWireROM)]_vars

\* C38: a reset, read-bit or write-bit that follows OneWireClose fails, hands
\* no octet to the UART and leaves the UART closed.
C38_ClosedStaysClosed ==
    [][(uartOp.name = "Close" /\ uartOp'.name \in {"Reset", "WriteBit", "ReadBit"}) =>
          /\ uartOp'.sent = -1
          /\ ~uartOp'.speedOk
          /\ uartFd' = -1]_vars

\* a CRC-valid device with family code 0x00 is attached
ZeroFamilyAttached == \E d \in devices : d[1] = 0 /\ Crc8OfSeq(0, d) = 0

\* C39: while a CRC-valid device with family code 0x00 is attached, every
\* OneWireSearchROM(false) call of an enumeration started by
\* OneWireResetSearch returns false and leaves the three cursor fields at 0.
C39_ZeroFamilyHidesBus ==
    (FullEnum /\ ZeroFamilyAttached) =>
        /\ \A i \in 1..Len(enumLog) :
              ~enumLog[i].ret /\ enumLog[i].ld = 0 /\ enumLog[i].ldf = 0
        /\ (lastOp.name = "SearchROM") =>
              /\ ~lastOp.ret
              /\ OneWireLastDeviceFlag = 0
              /\ OneWireLastDiscrepancy = 0
              /\ OneWireLastFamilyDiscrepancy = 0

\* three calls were made with the family-0x00 device and two others attached
C39_Witness ==
    /\ FullEnum
    /\ ZeroFamilyAttached
    /\ Cardinality(devices) = 3
    /\ Len(enumLog) >= 3
    /\ \A i \in 1..3 : ~enumLog[i].ret
    /\ OneWireROM[1] = 0

(***************************************************************************)
(* C36 : OneWireVerifyROM inside an enumeration                            *)
(***************************************************************************)
\* OneWireVerifyROM called in the current state, on the same fault-free bus
VerifyHere ==
    OneWireVerifyROMResult(OneWireROM, OneWireLastDeviceFlag, OneWireLastDiscrepancy,
                           OneWireLastFamilyDiscrepancy, devices, NoFault)

\* everything a OneWireSearchROM call leaves that a later call can depend on
SearchState(r) == <<r.ret, r.rom, r.ldf, r.ld, r.lfd, r.crc>>

\* C36: on a fault-free bus with a fixed device set, after any OneWireSearchROM
\* call of an enumeration, the next OneWireSearchROM call returns the same
\* value and leaves the same identifier, cursor and accumulator whether or not
\* a OneWireVerifyROM call is made in between; the two runs then continue from
\* equal states, so the rest of the enumeration is the same.
C36_VerifyTransparent ==
    (enumOn /\ Len(enumLog) >= 1 /\ lastOp.name = "SearchROM") =>
        \A v \in {VerifyHere} :
        \A alarmSearch \in BOOLEAN :
        \A a \in {OneWireSearchROMFrom(v.crc, v.rom, v.ldf, v.ld, v.lfd,
                                       alarmSearch, devices, NoFault)} :
        \A b \in {NextPass(alarmSearch)} :
            SearchState(a) = SearchState(b)

\* in the middle of an enumeration of three devices: the last call found a
\* device and left a collision to revisit, the verification in between
\* succeeds and the next call finds another device
C36_Witness ==
    /\ enumOn /\ Len(enumLog) = 1 /\ lastOp.name = "SearchROM" /\ lastOp.ret
    /\ Cardinality(devices) = 3
    /\ OneWireLastDiscrepancy > 0
    /\ VerifyHere.ret
    /\ NextPass(FALSE).ret /\ NextPass(FALSE).rom # OneWireROM

(***************************************************************************)
(* C32 : the temperature returned by GetScratchpadCelsius                  *)
(***************************************************************************)
\* the value of a 16-bit word read as two's complement
Signed16(w) == IF w >= 32768 THEN w - 65536 ELSE w

\* C32: GetScratchpadCelsius returns, in sixteenths of a degree, the signed
\* 16-bit two's-complement value of (MSB << 8 | LSB) with the low 3, 2, 1 or 0
\* bits cleared for 9, 10, 11 or 12-bit resolution; a reading with its sign
\* bit set (MSB >= 0x80) gives a negative temperature.
C32_SignedTemperature ==
    (thermo.name = "GetScratchpadCelsius") =>
        LET word == Ds18b20ScratchPad[2] * 256 + Ds18b20ScratchPad[1]
            cleared == 3 - GetScratchpadResolution(Ds18b20ScratchPad)
        IN  /\ thermo.value = Signed16(word - (word % Pow2(cleared)))
            /\ (Ds18b20ScratchPad[2] >= 128) => (thermo.value < 0)

(***************************************************************************)
(* C37 : the strong pullup is low when an operation returns                *)
(***************************************************************************)
\* C37: every public operation other than OneWireWriteBit(bit, true) and
\* OneWireSendByteWithPullup returns with the strong pullup low; in
\* particular Ds18b20ConvertT(true, r) and Ds18b20CopyScratchpad(true) drive
\* the pullup low before they return.
C37_PullupLowOnReturn ==
    /\ (uartOp.name \in {"Init", "Close", "DisableStrongPullup"}) => (gpioValue = 0)
    /\ (uartOp.name = "WriteBit"
           /\ thermo.name \in {"Ds18b20ConvertT", "Ds18b20CopyScratchpad"})
        => (gpioValue = 0)

(***************************************************************************)
(* C31 : the loop of TemperatureTimerEventHandler ends                     *)
(***************************************************************************)
\* the calls of the loop so far: at most one OneWireSearchROM call per
\* attached device has returned true, and only the last call made may have
\* returned false
PollBound ==
    (lastOp.name \in {"SearchROM", "ReadDevice", "SetTemperatureLED"}) =>
        /\ enumOn
        /\ Len(enumLog) >= 1
        /\ Len(enumLog) <= Cardinality(devices) + 1
        /\ \A i \in 1..(Len(enumLog) - 1) : enumLog[i].ret
        /\ enumLog[Len(enumLog)].ret => Len(enumLog) <= Cardinality(devices)

\* C31: in TemperatureTimerEventHandler, with a fixed finite device set, the
\* loop that follows OneWireTargetSetup(0x28) makes at most one
\* OneWireSearchROM(false) call per attached device plus the final call that
\* returns false, and SetTemperatureLED is eventually reached.
C31_LoopTerminates ==
    (lastOp.name = "TargetSetup") ~> (lastOp.name = "SetTemperatureLED" /\ PollBound)

\* the handler has run through on a bus with three devices: three calls
\* found a device, the fourth returned false, and the LED was set
C31_Witness ==
    /\ lastOp.name = "SetTemperatureLED"
    /\ Cardinality(devices) = 3
    /\ Len(enumLog) = 4
    /\ enumLog[3].ret /\ ~enumLog[4].ret

====
